---- MODULE Spec2Model ----
(***************************************************************************)
(* A model of susy_cross_section: the unit algebra (utility.Unit), the     *)
(* annotation model (base/info.py), the grid-table builder                 *)
(* (base/table.py, BaseFile) and the interpolation results                 *)
(* (interp/interpolator.py, interp/axes_wrapper.py and the older           *)
(* interpolator.py).                                                       *)
(*                                                                         *)
(* Numbers.  Python floats are modelled by integers.  Every product with a *)
(* unit factor (a rational) and every square root is rounded to the        *)
(* nearest integer, as a float operation rounds to the nearest float; the  *)
(* inputs are drawn so that the unit conversions themselves are exact.     *)
(***************************************************************************)
EXTENDS Integers, Sequences, FiniteSets, TLC

VARIABLES
    pc,           \* position inside BaseFile.__init__, or in interpolate-then-query
    annotation,   \* content of the .info file (json), the input of FileInfo.load
    info,         \* self.info : FileInfo, or None
    raw_data,     \* self.raw_data : rows read by _read_csv, or None
    tables,       \* self.tables : value name -> table (sequence of rows), or None
    error,        \* the exception that left __init__ / interpolate / a query, or None
    warnings,     \* messages passed to logger.warning so far
    interpolator, \* the interpolator object (module, class, kind, axes), or None
    table,        \* the table handed to interpolate()
    interp,       \* the Interpolation returned by interpolate(), or None
    query,        \* the last call made on the interpolation result or on a Unit, or None
    result,       \* what that call returned (value, nan, tuple) or raised
    heap          \* the Unit objects constructed so far, in the order of construction

vars == <<pc, annotation, info, raw_data, tables, error, warnings,
          interpolator, table, interp, query, result, heap>>

None == "None"

(***************************************************************************)
(* Arithmetic helpers.                                                     *)
(***************************************************************************)
Abs(x) == IF x < 0 THEN -x ELSE x

Max2(a, b) == IF a >= b THEN a ELSE b

Min2(a, b) == IF a <= b THEN a ELSE b

RECURSIVE Gcd(_, _)
Gcd(a, b) == IF b = 0 THEN a ELSE Gcd(b, a % b)

\* Python 3 round(a / b) for b > 0: nearest integer, ties to the even one.
Round(a, b) ==
    LET q == a \div b
        r == a % b
    IN  IF 2 * r < b THEN q
        ELSE IF 2 * r > b THEN q + 1
        ELSE IF q % 2 = 0 THEN q ELSE q + 1

RECURSIVE SqrtSearch(_, _, _)
SqrtSearch(n, lo, hi) ==
    IF lo >= hi THEN lo
    ELSE LET mid == (lo + hi + 1) \div 2
         IN  IF mid * mid <= n THEN SqrtSearch(n, mid, hi)
             ELSE SqrtSearch(n, lo, mid - 1)

\* x ** 0.5 for x >= 0, rounded to the nearest integer.
Sqrt(n) ==
    LET f == SqrtSearch(n, 0, Min2(n, 46340))
    IN  IF n - f * f > f THEN f + 1 ELSE f

RECURSIVE SeqMax(_)
SeqMax(s) ==
    IF Len(s) = 1 THEN s[1] ELSE Max2(s[1], SeqMax(Tail(s)))

RECURSIVE SumSquares(_)
SumSquares(s) ==
    IF s = <<>> THEN 0 ELSE s[1] * s[1] + SumSquares(Tail(s))

Range(s) == {s[i] : i \in DOMAIN s}

(***************************************************************************)
(* utility.Unit: a rational factor <<num, den>> and a dict of base-unit    *)
(* exponents (a function whose domain is the set of keys of _units).       *)
(***************************************************************************)
Rat(n, d) == LET g == Gcd(Abs(n), d) IN <<n \div g, d \div g>>

RatMul(a, b) == Rat(a[1] * b[1], a[2] * b[2])

RatInv(a) == IF a[1] < 0 THEN <<-a[2], -a[1]>> ELSE <<a[2], a[1]>>

NumItem(n, d) == [isstr |-> FALSE, name |-> "", num |-> <<n, d>>]

StrItem(s) == [isstr |-> TRUE, name |-> s, num |-> <<1, 1>>]

\* Unit.definitions
definitions ==
    ("" :> <<NumItem(1, 1)>>)
    @@ ("%" :> <<NumItem(1, 100)>>)
    @@ ("pb" :> <<NumItem(1000, 1), StrItem("fb")>>)

RECURSIVE FlattenBaseUnits(_)
RECURSIVE get_base_units(_)
\* Unit._get_base_units
get_base_units(item) ==
    IF item.isstr /\ item.name \in DOMAIN definitions
    THEN FlattenBaseUnits(definitions[item.name])
    ELSE <<item>>

FlattenBaseUnits(items) ==
    IF items = <<>> THEN <<>>
    ELSE get_base_units(items[1]) \o FlattenBaseUnits(Tail(items))

EmptyUnit == [factor |-> <<1, 1>>, units |-> <<>>]

UnitsAdd(units, k, v) ==
    IF k \in DOMAIN units THEN [units EXCEPT ![k] = @ + v]
    ELSE units @@ (k :> v)

RECURSIVE UnitsMerge(_, _, _)
UnitsMerge(units, other, keys) ==
    IF keys = {} THEN units
    ELSE LET k == CHOOSE x \in keys : TRUE
         IN  UnitsMerge(UnitsAdd(units, k, other[k]), other, keys \ {k})

\* Unit.__imul__ with another Unit
imul_unit(self, other) ==
    [factor |-> RatMul(self.factor, other.factor),
     units  |-> UnitsMerge(self.units, other.units, DOMAIN other.units)]

RECURSIVE imul_items(_, _)
imul_items(self, items) ==
    IF items = <<>> THEN self
    ELSE LET b == items[1]
             next == IF b.isstr
                     THEN [self EXCEPT !.units = UnitsAdd(self.units, b.name, 1)]
                     ELSE [self EXCEPT !.factor = RatMul(self.factor, b.num)]
         IN  imul_items(next, Tail(items))

\* Unit.__imul__ with a str or a float
imul_name(self, other) == imul_items(self, get_base_units(other))

\* Unit(name)
UnitOf(name) == imul_name(EmptyUnit, StrItem(name))

\* Unit.inverse
inverse_exponents(self) ==
    [factor |-> self.factor,
     units  |-> [k \in DOMAIN self.units |-> -self.units[k]]]

inverse(self) ==
    [factor |-> RatInv(self.factor),
     units  |-> [k \in DOMAIN self.units |-> -self.units[k]]]

\* Unit.__mul__ : Unit(self, other)
UnitMul(a, b) == imul_unit(imul_unit(EmptyUnit, a), b)

\* Unit.__truediv__ : Unit(self, Unit(other).inverse())
UnitDiv(a, b) == imul_unit(imul_unit(EmptyUnit, a), inverse(imul_unit(EmptyUnit, b)))

\* Unit.__float__ raises ValueError unless every exponent is zero
IsDimensionless(u) == \A k \in DOMAIN u.units : u.units[k] = 0

UnitFloat(u) == u.factor

\* number * float(unit): the product, rounded to the nearest number
MulFactor(x, f) == Round(x * f[1], f[2])

(***************************************************************************)
(* Exceptions and the values that stand for "not set".                     *)
(***************************************************************************)
Error(type, msg) == [type |-> type, msg |-> msg, table |-> "", key |-> <<>>]

NoError == Error(None, "")

NoInfo == [columns |-> <<>>, parameters |-> <<>>, values |-> <<>>]

(***************************************************************************)
(* base/info.py: the annotation.  A json list that may be missing is       *)
(* [given |-> BOOLEAN, list |-> sequence]; a granularity that may be       *)
(* missing is [given |-> BOOLEAN, value |-> number, text |-> string], with *)
(* a non-empty text for a json string in place of a number.  In            *)
(* ParameterInfo the granularity None is the number 0 ("granularity or     *)
(* None" maps both to None, and the code only tests its truth value); a    *)
(* granularity that is a string is kept in granularity_text.               *)
(***************************************************************************)
Absent == [given |-> FALSE, list |-> <<>>]

Given(list) == [given |-> TRUE, list |-> list]

\* ValueInfo._valid_uncertainty_types
valid_uncertainty_types ==
    {"relative", "absolute", "signed,relative", "signed,absolute",
     "relative,signed", "absolute,signed"}

\* unc_type.split(",")
Split(unc_type) ==
    CASE unc_type = "relative" -> {"relative"}
      [] unc_type = "absolute" -> {"absolute"}
      [] unc_type = "signed,relative" -> {"signed", "relative"}
      [] unc_type = "relative,signed" -> {"signed", "relative"}
      [] unc_type = "signed,absolute" -> {"signed", "absolute"}
      [] unc_type = "absolute,signed" -> {"signed", "absolute"}
      [] OTHER -> {unc_type}

\* ColumnInfo(index=i, name=c.get("name"), unit=c.get("unit")) for i, c in enumerate(...)
LoadColumns(cols) ==
    [i \in DOMAIN cols |-> [index |-> i - 1, name |-> cols[i].name, unit |-> cols[i].unit]]

\* ParameterInfo.__init__ via from_json
LoadParameter(p) ==
    [column |-> p.column,
     granularity |-> IF p.granularity.given THEN p.granularity.value ELSE 0,
     granularity_text |-> IF p.granularity.given THEN p.granularity.text ELSE ""]

\* ParameterInfo.validate
ParameterError(p) ==
    IF p.column = "" THEN Error("AssertionError", "ParameterInfo.column is missing")
    ELSE IF p.granularity_text # ""
    THEN Error("AssertionError", "Granularity not a number.")
    ELSE IF p.granularity # 0 /\ ~(p.granularity > 0)
    THEN Error("AssertionError", "Negative granularity.")
    ELSE NoError

\* json_obj.get(key_name) or json_obj.get("unc") or None
UncDef(v, key) ==
    IF key.given /\ key.list # <<>> THEN key
    ELSE IF v.unc.given /\ v.unc.list # <<>> THEN v.unc
    ELSE Absent

\* [(src["column"] if is_list(src["column"]) else [src["column"]], src["type"]) ...]
UncList(unc_def) ==
    [i \in DOMAIN unc_def.list |->
        [cols |-> unc_def.list[i].column.names, type |-> unc_def.list[i].type]]

\* ValueInfo.from_json: the exception it raises, if any
ValueLoadError(v) ==
    IF v.unc.given /\ (v.unc_plus.given \/ v.unc_minus.given)
    THEN Error("ValueError", "Uncertainty duplicates")
    ELSE NoError

\* ValueInfo.from_json: the object it returns
LoadValueOwn(v) ==
    [column |-> v.column,
     unc_p  |-> UncList(v.unc_plus),
     unc_m  |-> UncList(v.unc_minus)]

LoadValue(v) ==
    [column |-> v.column,
     unc_p  |-> UncList(UncDef(v, v.unc_plus)),
     unc_m  |-> UncList(UncDef(v, v.unc_minus))]

\* a from_json that logs nothing
ValueWarningsNone(v) == <<>>

\* ValueInfo.from_json: the warnings it logs
ValueWarnings(v) ==
    (IF UncDef(v, v.unc_plus).given THEN <<>> ELSE <<"Uncertainty (unc+) missing">>)
    \o (IF UncDef(v, v.unc_minus).given THEN <<>> ELSE <<"Uncertainty (unc-) missing">>)
    \o (IF UncDef(v, v.unc_plus).given /\ UncDef(v, v.unc_minus).given
        THEN <<>> ELSE <<"Value lacks uncertainties">>)

\* ValueInfo.validate
ValueError(v) ==
    IF v.column = "" THEN Error("AssertionError", "ValueInfo.column is missing.")
    ELSE IF \E s \in Range(v.unc_p) \cup Range(v.unc_m) : s.type \notin valid_uncertainty_types
    THEN Error("AssertionError", "invalid unc type")
    ELSE NoError

\* ColumnInfo.validate
ColumnError(c) ==
    IF ~(c.index >= 0) THEN Error("ValueError", "ColumnInfo.index must be non-negative")
    ELSE IF c.name = "" THEN Error("ValueError", "name missing")
    ELSE NoError

\* the first exception among those raised for the members of a list
RECURSIVE FirstError(_)
FirstError(errors) ==
    IF errors = <<>> THEN NoError
    ELSE IF errors[1] # NoError THEN errors[1]
    ELSE FirstError(Tail(errors))

ColumnNames(fi) == {fi.columns[i].name : i \in DOMAIN fi.columns}

\* every column name an uncertainty source of value v refers to
SourceColumns(v) ==
    UNION {Range(s.cols) : s \in Range(v.unc_p) \cup Range(v.unc_m)}

\* FileInfo.validate: the exception it raises, or NoError
validate_members(fi) ==
    FirstError([i \in DOMAIN fi.columns |-> ColumnError(fi.columns[i])]
               \o [i \in DOMAIN fi.parameters |-> ParameterError(fi.parameters[i])]
               \o [i \in DOMAIN fi.values |-> ValueError(fi.values[i])])

validate_info(fi) ==
    LET members == FirstError([i \in DOMAIN fi.columns |-> ColumnError(fi.columns[i])]
                       \o [i \in DOMAIN fi.parameters |-> ParameterError(fi.parameters[i])]
                       \o [i \in DOMAIN fi.values |-> ValueError(fi.values[i])])
    IN  IF members # NoError THEN members
        ELSE IF \E i \in DOMAIN fi.columns : fi.columns[i].index # i - 1
        THEN Error("AssertionError", "Mismatched column index")
        ELSE IF \E i, j \in DOMAIN fi.columns : i < j /\ fi.columns[i].name = fi.columns[j].name
        THEN Error("AssertionError", "Duplicated column name")
        ELSE IF \E i \in DOMAIN fi.parameters : fi.parameters[i].column \notin ColumnNames(fi)
        THEN Error("AssertionError", "Unknown column name")
        ELSE IF \E i \in DOMAIN fi.values :
                    \/ fi.values[i].column \notin ColumnNames(fi)
                    \/ ~(SourceColumns(fi.values[i]) \subseteq ColumnNames(fi))
        THEN Error("AssertionError", "Unknown column name")
        ELSE NoError

\* FileInfo._load: the object built from the json data
LoadedInfo(ann) ==
    [columns    |-> LoadColumns(ann.columns),
     parameters |-> [i \in DOMAIN ann.parameters |-> LoadParameter(ann.parameters[i])],
     values     |-> [i \in DOMAIN ann.values |-> LoadValue(ann.values[i])]]

\* FileInfo.load without the validate() that ends it: the exception of _load alone
LoadErrorUnvalidated(ann) ==
    FirstError([i \in DOMAIN ann.values |-> ValueLoadError(ann.values[i])])

\* FileInfo.load: the exception raised by _load or by the validate() that ends it
LoadError(ann) ==
    LET early == FirstError(
                    [i \in DOMAIN ann.parameters |-> ParameterError(LoadParameter(ann.parameters[i]))]
                    \o [i \in DOMAIN ann.values |-> ValueLoadError(ann.values[i])])
    IN  IF early # NoError THEN early ELSE validate_info(LoadedInfo(ann))

RECURSIVE Concat(_)
Concat(seqs) == IF seqs = <<>> THEN <<>> ELSE seqs[1] \o Concat(Tail(seqs))

\* FileInfo._load: the warnings logged
LoadWarnings(ann) ==
    Concat([i \in DOMAIN ann.values |-> ValueWarnings(ann.values[i])])
    \o (IF ann.document THEN <<>> ELSE <<"No document is given.">>)

\* FileInfo.get_column(name).unit
ColumnUnit(fi, name) ==
    LET i == CHOOSE j \in DOMAIN fi.columns :
                 /\ fi.columns[j].name = name
                 /\ \A k \in DOMAIN fi.columns : fi.columns[k].name = name => j <= k
    IN  fi.columns[i].unit

(***************************************************************************)
(* base/table.py: BaseFile.  A raw row is a function from column names to  *)
(* numbers; a table is the sequence of its rows, each with the index key   *)
(* (the tuple of parameter values) and the columns value, unc+ and unc-.   *)
(***************************************************************************)
\* rounding toward minus infinity instead of to the nearest multiple
quantize_floor(x, granularity) == (x \div granularity) * granularity

\* quantize(data_frame, granularity): (data_frame / granularity).apply(round) * granularity
quantize(x, granularity) == Round(x, granularity) * granularity

\* the index with the parameters in the reverse of their declaration order
IndexKeyReversed(fi, r) ==
    LET n == Len(fi.parameters)
    IN  [i \in DOMAIN fi.parameters |->
            IF fi.parameters[n + 1 - i].granularity # 0
            THEN quantize(r[fi.parameters[n + 1 - i].column], fi.parameters[n + 1 - i].granularity)
            ELSE r[fi.parameters[n + 1 - i].column]]

\* the index a raw row gets from set_index after the parameters are quantized
IndexKey(fi, r) ==
    [i \in DOMAIN fi.parameters |->
        IF fi.parameters[i].granularity # 0
        THEN quantize(r[fi.parameters[i].column], fi.parameters[i].granularity)
        ELSE r[fi.parameters[i].column]]

IsRelative(unc_type) == "relative" \in Split(unc_type)

IsSigned(unc_type) == "signed" \in Split(unc_type)

\* rel_columns and abs_columns of _prepare_normalized_data
rel_columns(v) ==
    UNION {Range(s.cols) : s \in {t \in Range(v.unc_p) \cup Range(v.unc_m) : IsRelative(t.type)}}

abs_columns(v) ==
    UNION {Range(s.cols) : s \in {t \in Range(v.unc_p) \cup Range(v.unc_m) : ~IsRelative(t.type)}}

\* the unit whose float() multiplies column col: unc_unit / value_unit
ConversionUnitInverted(fi, v, col) ==
    LET value_unit == UnitOf(ColumnUnit(fi, v.column))
    IN  IF col \in abs_columns(v)
        THEN UnitDiv(value_unit, UnitOf(ColumnUnit(fi, col)))
        ELSE UnitDiv(UnitMul(UnitOf(ColumnUnit(fi, col)), value_unit), value_unit)

ConversionUnit(fi, v, col) ==
    LET value_unit == UnitOf(ColumnUnit(fi, v.column))
    IN  IF col \in abs_columns(v)
        THEN UnitDiv(UnitOf(ColumnUnit(fi, col)), value_unit)
        ELSE UnitDiv(UnitMul(UnitOf(ColumnUnit(fi, col)), value_unit), value_unit)

\* data.columns after set_index: every column that is not a parameter
DataColumns(fi) ==
    {fi.columns[i].name : i \in DOMAIN fi.columns}
        \ {fi.parameters[i].column : i \in DOMAIN fi.parameters}

\* the columns of the normalized frame that are converted
ConvertedColumns(fi, v) ==
    DataColumns(fi) \cap ((abs_columns(v) \cup rel_columns(v)) \ {v.column})

\* _prepare_normalized_data: the exception it raises, or NoError
NormalizeError(fi, v) ==
    IF abs_columns(v) \cap rel_columns(v) # {}
    THEN Error("AssertionError", "abs_columns.isdisjoint(rel_columns)")
    ELSE IF \E c \in ConvertedColumns(fi, v) : ~IsDimensionless(ConversionUnit(fi, v, c))
    THEN Error("ValueError", "Unit conversion error")
    ELSE NoError

\* the row with a relative column converted like an absolute one, without
\* the central value
NormalizedRowPlain(fi, v, r) ==
    [c \in ConvertedColumns(fi, v) \cup {v.column} |->
        IF c = v.column THEN r[c]
        ELSE MulFactor(r[c], UnitFloat(ConversionUnit(fi, v, c)))]

\* one row of the frame _prepare_normalized_data returns (the columns it keeps)
NormalizedRow(fi, v, r) ==
    [c \in ConvertedColumns(fi, v) \cup {v.column} |->
        IF c = v.column THEN r[c]
        ELSE IF c \in abs_columns(v)
        THEN MulFactor(r[c], UnitFloat(ConversionUnit(fi, v, c)))
        ELSE MulFactor(r[v.column] * r[c], UnitFloat(ConversionUnit(fi, v, c)))]

\* [abs(row[c]) for c in source if row[c] * sign > 0], or all of them when not signed
unc_candidates(row, source, unc_type, sign) ==
    LET kept == SelectSeq(source, LAMBDA c : ~IsSigned(unc_type) \/ row[c] * sign > 0)
    IN  [i \in DOMAIN kept |-> Abs(row[kept[i]])]

\* the candidates of one source summed in quadrature instead of maximised
unc_component_flat(row, src, sign) ==
    Sqrt(SumSquares(unc_candidates(row, src.cols, src.type, sign)))

\* max(unc_candidates) if unc_candidates else 0
unc_component(row, src, sign) ==
    LET cand == unc_candidates(row, src.cols, src.type, sign)
    IN  IF cand = <<>> THEN 0 ELSE SeqMax(cand)

\* calc(row, unc_sources, sign) of _parse_data
calc(row, unc_sources, sign) ==
    Sqrt(SumSquares([i \in DOMAIN unc_sources |-> unc_component(row, unc_sources[i], sign)]))

\* the last raw row whose index key equals that of row i: tables[name].loc[key, ...] = ...
\* assigns to every row with that key, so the last assignment stays
LastWithKey(fi, raw, i) ==
    CHOOSE j \in DOMAIN raw :
        /\ IndexKey(fi, raw[j]) = IndexKey(fi, raw[i])
        /\ \A k \in DOMAIN raw : IndexKey(fi, raw[k]) = IndexKey(fi, raw[i]) => k <= j

\* the table _parse_data builds for value v
ParseTable(fi, raw, v) ==
    [i \in DOMAIN raw |->
        LET row == NormalizedRow(fi, v, raw[LastWithKey(fi, raw, i)])
        IN  [key   |-> IndexKey(fi, raw[i]),
             value |-> raw[i][v.column],
             uncp  |-> calc(row, v.unc_p, 1),
             uncm  |-> calc(row, v.unc_m, -1)]]

ValueNames(fi) == {fi.values[i].column : i \in DOMAIN fi.values}

ValueInfoOf(fi, name) ==
    fi.values[CHOOSE i \in DOMAIN fi.values :
                 /\ fi.values[i].column = name
                 /\ \A k \in DOMAIN fi.values : fi.values[k].column = name => k <= i]

\* _parse_data: the exception it raises, or NoError
ParseError(fi) == FirstError([i \in DOMAIN fi.values |-> NormalizeError(fi, fi.values[i])])

\* _parse_data: the dict it returns
parse_data(fi, raw) ==
    [name \in ValueNames(fi) |-> ParseTable(fi, raw, ValueInfoOf(fi, name))]

\* table.index[table.index.duplicated()]: the positions of the repeated keys
Duplicated(t) == {i \in DOMAIN t : \E j \in DOMAIN t : j < i /\ t[j].key = t[i].key}

\* a validation that accepts every table
validate_nothing(fi, tabs) == NoError

\* BaseFile.validate: the exception it raises, or NoError
validate_tables(fi, tabs) ==
    LET bad == {i \in DOMAIN fi.values : Duplicated(tabs[fi.values[i].column]) # {}}
    IN  IF bad = {} THEN NoError
        ELSE LET i == CHOOSE x \in bad : \A y \in bad : x <= y
                 t == tabs[fi.values[i].column]
                 d == CHOOSE x \in Duplicated(t) : \A y \in Duplicated(t) : x <= y
             IN  [type |-> "ValueError", msg |-> "Found duplicated entries",
                  table |-> fi.values[i].column, key |-> t[d].key]

(***************************************************************************)
(* Inputs of the table builder: the annotation files and the data files.   *)
(***************************************************************************)
\* the largest number of rows of a data file with several grid points
MaxRows == 2

StrColumn(name) == [islist |-> FALSE, names |-> <<name>>]

ListColumn(names) == [islist |-> TRUE, names |-> names]

\* the unit written for an uncertainty column of the given type
SourceUnit(unc_type, scale) ==
    IF IsRelative(unc_type)
    THEN (IF scale = "same" THEN "" ELSE IF scale = "dimensional" THEN "fb" ELSE "%")
    ELSE (IF scale = "same" THEN "fb" ELSE IF scale = "up" THEN "pb"
          ELSE IF scale = "other" THEN "GeV" ELSE "fb")

\* An annotation with one parameter m, one value xsec and three uncertainty
\* columns: u1 and u2 are alternatives of one source (type t1), u3 is a
\* source of its own (type t2).
MakeAnnotation(t1, t2, scale, shape, g, c3) ==
    LET g1 == [column |-> ListColumn(<<"u1", "u2">>), type |-> t1]
        g2 == [column |-> StrColumn(c3), type |-> t2]
    IN  [document   |-> TRUE,
         columns    |-> << [name |-> "m", unit |-> "GeV"],
                           [name |-> "xsec", unit |-> IF scale = "down" THEN "pb" ELSE "fb"],
                           [name |-> "u1", unit |-> SourceUnit(t1, scale)],
                           [name |-> "u2", unit |-> SourceUnit(t1, scale)],
                           [name |-> "u3", unit |-> SourceUnit(t2, scale)] >>,
         parameters |-> << [column |-> "m",
                            granularity |-> [given |-> g # 0, value |-> g, text |-> ""]] >>,
         values     |-> << [column    |-> "xsec",
                            unc       |-> IF shape \in {"unc", "both"}
                                          THEN Given(<<g1, g2>>) ELSE Absent,
                            unc_plus  |-> IF shape \in {"asym", "both"}
                                          THEN Given(<<g1>>) ELSE Absent,
                            unc_minus |-> IF shape = "asym"
                                          THEN Given(<<g1, g2>>) ELSE Absent] >>]

SourceTypes == {"relative", "absolute", "relative,signed", "absolute,signed"}

\* an annotation whose sources leave the column u3 unused
UnusedColumn == MakeAnnotation("absolute", "absolute", "same", "unc", 10, "u1")

\* the annotation with the parameters u3 (as it is) and m (in steps of 10), in this order
TwoParameters(ann) ==
    [ann EXCEPT !.parameters = << [column |-> "u3",
                                     granularity |-> [given |-> FALSE, value |-> 0, text |-> ""]],
                                  [column |-> "m",
                                     granularity |-> [given |-> TRUE, value |-> 10, text |-> ""]] >>]

\* the annotation with a second value declared for the named column, its
\* uncertainty taken from u1 alone
SecondValue(ann, name) ==
    [ann EXCEPT !.values = @ \o << [column    |-> name,
                                    unc       |-> Given(<<[column |-> StrColumn("u1"),
                                                          type |-> "absolute"]>>),
                                    unc_plus  |-> Absent,
                                    unc_minus |-> Absent] >>]

\* the annotation with the value declared by "unc+" and "unc-" as given, without "unc"
Uncertainties(ann, plus, minus) ==
    [ann EXCEPT !.values[1].unc = Absent,
                !.values[1].unc_plus = plus,
                !.values[1].unc_minus = minus]

\* annotations that lack the sources of a direction: "unc-" missing, "unc+"
\* empty, both missing
OneSided ==
    LET src == <<[column |-> StrColumn("u3"), type |-> "absolute"]>>
    IN  {Uncertainties(UnusedColumn, Given(src), Absent),
         Uncertainties(UnusedColumn, Given(<<>>), Given(src)),
         Uncertainties(UnusedColumn, Absent, Absent)}

\* the annotation with the granularity of its first parameter declared as given
Granularity(ann, value, text) ==
    [ann EXCEPT !.parameters[1].granularity = [given |-> TRUE, value |-> value, text |-> text]]

\* annotations that declare a granularity of zero, a negative one and a string
OddGranularities ==
    {Granularity(UnusedColumn, 0, ""), Granularity(UnusedColumn, -10, ""),
     Granularity(UnusedColumn, 0, "coarse")}

\* the annotation with its fourth column given the name of the third
DuplicatedColumn(ann) == [ann EXCEPT !.columns[4].name = ann.columns[3].name]

Annotations ==
    {MakeAnnotation(t1, t2, scale, shape, g, "u3") :
        t1 \in SourceTypes, t2 \in {"absolute", "relative,signed"},
        scale \in {"same", "up", "down"}, shape \in {"unc", "asym"}, g \in {0, 10}}
    \cup {MakeAnnotation("absolute", "absolute", "same", "both", 10, "u3"),
          MakeAnnotation("relative", "absolute", "same", "unc", 10, "u9"),
          MakeAnnotation("absolute", "relative", "up", "unc", 10, "u1"),
          MakeAnnotation("absolute", "absolute", "other", "unc", 10, "u3"),
          MakeAnnotation("relative", "absolute", "other", "asym", 0, "u3"),
          MakeAnnotation("relative", "absolute", "dimensional", "unc", 10, "u3"),
          UnusedColumn, TwoParameters(UnusedColumn),
          SecondValue(UnusedColumn, "u2"), SecondValue(UnusedColumn, "xsec"),
          MakeAnnotation("absolute", "gaussian", "same", "unc", 10, "u3"),
          MakeAnnotation("relative", "signed", "same", "asym", 0, "u3"),
          DuplicatedColumn(MakeAnnotation("absolute", "absolute", "same", "unc", 10, "u3"))}
    \cup OneSided \cup OddGranularities

\* the numbers written in an uncertainty column: the entries -4, 0 and 3 in
\* the unit of the column, times the denominator of its conversion factor
RawEntries(ann, col) ==
    LET fi == LoadedInfo(ann)
        v == fi.values[1]
        den == IF col \in ConvertedColumns(fi, v) /\ col \in abs_columns(v)
                  /\ IsDimensionless(ConversionUnit(fi, v, col))
               THEN UnitFloat(ConversionUnit(fi, v, col))[2] ELSE 1
    IN  {-4 * den, 0, 3 * den}

\* data files with a single grid point: every sign of the value and of the entries
OneRowFiles(ann) ==
    { << [m |-> 18, xsec |-> x, u1 |-> a, u2 |-> b, u3 |-> c] >> :
        x \in {-100, 0, 100},
        a \in RawEntries(ann, "u1"), b \in RawEntries(ann, "u2"), c \in RawEntries(ann, "u3") }

\* the rows of the data files with several grid points
GridRows(ann) ==
    { [m |-> m, xsec |-> 100, u1 |-> CHOOSE a \in RawEntries(ann, "u1") : a > 0,
       u2 |-> CHOOSE b \in RawEntries(ann, "u2") : b < 0, u3 |-> 0] :
        m \in {10, 14, 15, 25} }

RECURSIVE FilesOfLength(_, _)
FilesOfLength(rows, n) ==
    IF n = 0 THEN {<<>>}
    ELSE {<<r>> \o f : r \in rows, f \in FilesOfLength(rows, n - 1)}

DataFiles(ann) ==
    OneRowFiles(ann) \cup UNION {FilesOfLength(GridRows(ann), n) : n \in 2..MaxRows}

(***************************************************************************)
(* BaseFile.__init__, step by step.                                        *)
(***************************************************************************)
\* the values of the interpolation variables while nothing is interpolated
NoFit == [outside |-> None, degree |-> <<>>, checked |-> FALSE, wx |-> <<>>,
          wy_inv |-> "identity", xs |-> <<>>, ys |-> <<>>]

NoInterpolator ==
    [module |-> None, class |-> None, kind |-> None, axes |-> None,
     wrapper |-> [given |-> FALSE, wx |-> <<>>, wy |-> "identity", wy_inv |-> "identity"]]

NoTable == [names |-> <<>>, rows |-> <<>>]

NoInterp == [module |-> None, names |-> <<>>, f0 |-> NoFit, fp |-> NoFit, fm |-> NoFit]

NoQuery == [method |-> None, form |-> None, point |-> <<>>, args |-> <<>>, kwargs |-> <<>>]

NoResult == [kind |-> None, value |-> <<>>, type |-> ""]

BuilderIdle ==
    /\ interpolator = NoInterpolator
    /\ table = NoTable
    /\ interp = NoInterp
    /\ query = NoQuery
    /\ result = NoResult
    /\ heap = <<>>

Init ==
    /\ pc = "start"
    /\ annotation \in Annotations
    /\ info = NoInfo
    /\ raw_data = <<>>
    /\ tables = <<>>
    /\ error = NoError
    /\ warnings = <<>>
    /\ BuilderIdle

\* self.info = FileInfo.load(self.info_path)
LoadInfo ==
    /\ pc = "start"
    /\ LET err == LoadError(annotation)
       IN  IF err = NoError
           THEN /\ info' = LoadedInfo(annotation)
                /\ warnings' = warnings \o LoadWarnings(annotation)
                /\ pc' = "info_loaded"
                /\ error' = error
           ELSE /\ info' = info
                /\ warnings' = warnings
                /\ pc' = "failed"
                /\ error' = err
    /\ UNCHANGED <<annotation, raw_data, tables, heap, interpolator, table, interp, query, result>>

\* self.raw_data = self._read_csv(self.table_path)
ReadCsv ==
    /\ pc = "info_loaded"
    /\ \E data \in DataFiles(annotation) : raw_data' = data
    /\ pc' = "csv_read"
    /\ UNCHANGED <<annotation, info, tables, error, warnings,
                   heap, interpolator, table, interp, query, result>>

\* self.info.validate()
ValidateInfo ==
    /\ pc = "csv_read"
    /\ LET err == validate_info(info)
       IN  IF err = NoError
           THEN pc' = "info_validated" /\ error' = error
           ELSE pc' = "failed" /\ error' = err
    /\ UNCHANGED <<annotation, info, raw_data, tables, warnings,
                   heap, interpolator, table, interp, query, result>>

\* self.tables = self._parse_data()
ParseData ==
    /\ pc = "info_validated"
    /\ LET err == ParseError(info)
       IN  IF err = NoError
           THEN /\ tables' = parse_data(info, raw_data)
                /\ pc' = "parsed"
                /\ error' = error
           ELSE /\ tables' = tables
                /\ pc' = "failed"
                /\ error' = err
    /\ UNCHANGED <<annotation, info, raw_data, warnings,
                   heap, interpolator, table, interp, query, result>>

\* self.validate(); on success __init__ returns and the file object exists
ValidateTables ==
    /\ pc = "parsed"
    /\ LET err == validate_tables(info, tables)
       IN  IF err = NoError
           THEN pc' = "ready" /\ error' = error
           ELSE pc' = "failed" /\ error' = err
    /\ UNCHANGED <<annotation, info, raw_data, tables, warnings,
                   heap, interpolator, table, interp, query, result>>

Next == LoadInfo \/ ReadCsv \/ ValidateInfo \/ ParseData \/ ValidateTables

Spec == Init /\ [][Next]_vars

(***************************************************************************)
(* Floats that may be NaN, and the axis functions of AxesWrapper.  A       *)
(* logarithm is kept in units of half a decade: log10 maps the numbers     *)
(* 10^(k/2), rounded to integers, to k and exp10 maps k back; the tables   *)
(* and the queries under a logarithmic axis are drawn from these numbers,  *)
(* the only ones whose logarithm the integers of the model can hold.       *)
(***************************************************************************)
Num(v) == [nan |-> FALSE, v |-> v]

NaN == [nan |-> TRUE, v |-> 0]

FAdd(a, b) == IF a.nan \/ b.nan THEN NaN ELSE Num(a.v + b.v)

FSub(a, b) == IF a.nan \/ b.nan THEN NaN ELSE Num(a.v - b.v)

FNeg(a) == IF a.nan THEN NaN ELSE Num(-a.v)

FAbs(a) == IF a.nan THEN NaN ELSE Num(Abs(a.v))

FScale(k, a) == IF a.nan THEN NaN ELSE Num(k * a.v)

\* 10^(k/2) for k = 0, 1, ..., rounded
HalfDecades == <<1, 3, 10, 32, 100, 316, 1000, 3162, 10000, 31623>>

\* AxesWrapper.identity
identity(x) == x

\* AxesWrapper.log10: numpy.log10, which is nan for a negative number; in
\* units of half a decade, a number between two entries of HalfDecades taken
\* as the lower one
log10(x) ==
    IF x.nan \/ x.v < 0 THEN NaN
    ELSE Num(Cardinality({k \in DOMAIN HalfDecades : HalfDecades[k] <= x.v}) - 1)

\* AxesWrapper.exp10: 10 ** x
exp10(x) == IF x.nan THEN NaN ELSE Num(HalfDecades[x.v + 1])

\* AxesWrapper._predefined_function_names
predefined_function_names ==
    [n \in {"identity", "id", "linear", "log", "log10", "exp", "exp10"} |->
        IF n \in {"identity", "id", "linear"} THEN "identity"
        ELSE IF n \in {"log", "log10"} THEN "log10" ELSE "exp10"]

\* a table that inverts nothing
no_inverse_function_names ==
    [n \in {"identity", "log10", "exp10"} |-> "identity"]

\* AxesWrapper._inverse_function_names
inverse_function_names ==
    [n \in {"identity", "log10", "exp10"} |->
        IF n = "identity" THEN "identity" ELSE IF n = "log10" THEN "exp10" ELSE "log10"]

\* AxesWrapper._get_function for a name: the static method it names
get_function(name) == predefined_function_names[name]

\* the function of the name itself in place of its inverse
get_same_function(name) == predefined_function_names[name]

\* AxesWrapper._get_inverse_function
get_inverse_function(name) == inverse_function_names[predefined_function_names[name]]

\* the call of the numpy.vectorize-d static method called fname
Apply(fname, x) ==
    CASE fname = "identity" -> identity(x)
      [] fname = "log10" -> log10(x)
      [] fname = "exp10" -> exp10(x)

\* AxesWrapper.__init__ with names for wx and wy and no wy_inv
AxesWrapper(wx, wy) ==
    [given |-> TRUE,
     wx |-> [i \in DOMAIN wx |-> get_function(wx[i])],
     wy |-> get_function(wy),
     wy_inv |-> get_inverse_function(wy)]

\* axes_wrapper=None of ScipyGridInterpolator
NoWrapper == [given |-> FALSE, wx |-> <<>>, wy |-> "identity", wy_inv |-> "identity"]

\* the older AxesWrapper: get_function with function_aliases, log and exp in base 10
legacy_get_function(name) ==
    IF name \in {"id", "linear", "identity", ""} THEN "identity"
    ELSE IF name = "log" THEN "log10" ELSE "exp10"

\* the older AxesWrapper.__init__, wy_inv guessed by get_inverse_function when not given
LegacyAxesWrapper(wx, wy, wy_inv) ==
    [given |-> TRUE,
     wx |-> [i \in DOMAIN wx |-> legacy_get_function(wx[i])],
     wy |-> legacy_get_function(wy),
     wy_inv |-> IF wy_inv # "" THEN legacy_get_function(wy_inv)
                ELSE inverse_function_names[legacy_get_function(wy)]]

(***************************************************************************)
(* Arguments of a query.  An argument is a number or a list of numbers;    *)
(* None is the number without a value.                                     *)
(***************************************************************************)
Item(a) == [seq |-> FALSE, v |-> <<a>>]

ListItem(list) == [seq |-> TRUE, v |-> list]

NoneItem == [seq |-> FALSE, v |-> <<>>]

\* what a call returns or raises
Return(value) == [kind |-> "return", value |-> value, type |-> ""]

Raise(type) == [kind |-> "raise", value |-> <<>>, type |-> type]

\* _is_number
is_number(obj) == ~obj.seq /\ Len(obj.v) = 1

\* _is_number_sequence
is_number_sequence(obj, length) ==
    Len(obj) = length /\ \A i \in DOMAIN obj : is_number(obj[i])

\* _check_seq_length of the older axes_wrapper: the length and the first element
check_seq_length(obj, n) ==
    Len(obj) = n /\ (n = 0 \/ ~obj[1].seq)

\* {name: index for index, name in enumerate(param_names)}
param_index(names) ==
    [n \in Range(names) |->
        (CHOOSE i \in DOMAIN names :
            names[i] = n /\ \A j \in DOMAIN names : names[j] = n => j <= i) - 1]

\* x_list += [None for _ in range(len(x_list), index + 1)]; x_list[index] = value
SetAt(x_list, index, value) ==
    [i \in 1..Max2(Len(x_list), index + 1) |->
        IF i = index + 1 THEN value
        ELSE IF i <= Len(x_list) THEN x_list[i] ELSE NoneItem]

\* the loop over kwargs.items(): the list, or the exception of the first unknown name
RECURSIVE ApplyKwargs(_, _, _, _)
ApplyKwargs(x_list, kwargs, index, unknown) ==
    IF kwargs = <<>> THEN [raised |-> "", xs |-> x_list]
    ELSE IF kwargs[1].name \notin DOMAIN index THEN [raised |-> unknown, xs |-> <<>>]
    ELSE ApplyKwargs(SetAt(x_list, index[kwargs[1].name], kwargs[1].value),
                     Tail(kwargs), index, unknown)

\* a single list in place of several arguments is not unpacked
interpret_args_packed(names, args, kwargs) ==
    LET parsed == ApplyKwargs(args, kwargs, param_index(names), "TypeError")
    IN  IF kwargs = <<>> THEN [raised |-> "", xs |-> args]
        ELSE IF parsed.raised # "" THEN parsed
        ELSE IF \E i \in DOMAIN parsed.xs : parsed.xs[i] = NoneItem
        THEN [raised |-> "TypeError", xs |-> <<>>]
        ELSE parsed

\* the keyword values placed, with no look at the positions left without a value
interpret_args_unchecked(names, args, kwargs) ==
    LET xs == IF Len(args) = 1 /\ args[1].seq
              THEN [i \in DOMAIN args[1].v |-> Item(args[1].v[i])]
              ELSE args
        parsed == ApplyKwargs(xs, kwargs, param_index(names), "TypeError")
    IN  IF kwargs = <<>> THEN [raised |-> "", xs |-> xs] ELSE parsed

\* Interpolation._interpret_args
interpret_args(names, args, kwargs) ==
    LET xs == IF Len(args) = 1 /\ args[1].seq
              THEN [i \in DOMAIN args[1].v |-> Item(args[1].v[i])]
              ELSE args
        parsed == ApplyKwargs(xs, kwargs, param_index(names), "TypeError")
    IN  IF kwargs = <<>> THEN [raised |-> "", xs |-> xs]
        ELSE IF parsed.raised # "" THEN parsed
        ELSE IF \E i \in DOMAIN parsed.xs : parsed.xs[i] = NoneItem
        THEN [raised |-> "TypeError", xs |-> <<>>]
        ELSE parsed

\* InterpolationWithUncertainties._interpret_args
legacy_interpret_args(names, args, kwargs) ==
    LET parsed == ApplyKwargs(args, kwargs, param_index(names), "KeyError")
    IN  IF kwargs = <<>> THEN [raised |-> "", xs |-> args]
        ELSE IF parsed.raised # "" THEN parsed
        ELSE IF \E i \in DOMAIN parsed.xs : parsed.xs[i] = NoneItem
        THEN [raised |-> "ValueError", xs |-> <<>>]
        ELSE parsed

(***************************************************************************)
(* The interpolating functions.  scipy is modelled by its contract: a fit  *)
(* passes through its data at the knots; between the knots a fit of degree *)
(* 1 is the linear (bilinear) interpolation and a fit of higher degree is  *)
(* left open, so a query is only made where the fit is determined; outside *)
(* the range interp1d and RegularGridInterpolator with bounds_error raise  *)
(* ValueError, a piecewise polynomial with extrapolate=False gives nan and *)
(* RectBivariateSpline evaluates at the nearest point of the range.        *)
(***************************************************************************)
\* the values of a set of numbers in increasing order
RECURSIVE SortedSeq(_)
SortedSeq(S) ==
    IF S = {} THEN <<>>
    ELSE LET lo == CHOOSE x \in S : \A y \in S : x <= y
         IN  <<lo>> \o SortedSeq(S \ {lo})

\* the three series handed to _interpolate, one float per row of the table
ValueSeries(tab) == [i \in DOMAIN tab.rows |-> Num(tab.rows[i].value)]

UpperSeries(tab) == [i \in DOMAIN tab.rows |-> Num(tab.rows[i].value + tab.rows[i].uncp)]

\* the lower series without abs(): value - unc-
LowerSeriesSigned(tab) ==
    [i \in DOMAIN tab.rows |-> Num(tab.rows[i].value - tab.rows[i].uncm)]

LowerSeries(tab) ==
    [i \in DOMAIN tab.rows |-> Num(tab.rows[i].value - Abs(tab.rows[i].uncm))]

\* df.index.levels for a multi-index, [df.index.values] otherwise
Levels(tab) ==
    IF Len(tab.names) >= 2
    THEN [d \in DOMAIN tab.names |-> SortedSeq({tab.rows[i].key[d] : i \in DOMAIN tab.rows})]
    ELSE << [i \in DOMAIN tab.rows |-> tab.rows[i].key[1]] >>

\* the index tuples of the grid spanned by the levels
GridIndex(levels) ==
    IF Len(levels) = 1 THEN {<<i>> : i \in DOMAIN levels[1]}
    ELSE {<<i, j>> : i \in DOMAIN levels[1], j \in DOMAIN levels[2]}

\* df.unstack().to_numpy(): the series laid out on the grid, nan where a point is missing
Unstack(tab, series) ==
    LET levels == Levels(tab)
    IN  [idx \in GridIndex(levels) |->
            LET key == [d \in DOMAIN idx |-> levels[d][idx[d]]]
                at == {i \in DOMAIN tab.rows : tab.rows[i].key = key}
            IN  IF at = {} THEN NaN ELSE series[CHOOSE i \in at : TRUE]]

\* an interpolating function: what it does outside the range, its degree on
\* each axis, whether the arguments are type-checked, the axis functions, the
\* knots of each axis and the values on the grid (both in the modified axes)
Fit(outside, degree, wrapper, levels, ys) ==
    [outside |-> outside,
     degree  |-> degree,
     checked |-> wrapper.given,
     wx      |-> wrapper.wx,
     wy_inv  |-> wrapper.wy_inv,
     xs      |-> [d \in DOMAIN levels |->
                    [i \in DOMAIN levels[d] |->
                        IF wrapper.given THEN Apply(wrapper.wx[d], Num(levels[d][i])).v
                        ELSE levels[d][i]]],
     ys      |-> [idx \in DOMAIN ys |-> Apply(wrapper.wy, ys[idx])]]

\* what _interpolate gives: a function, or the exception it raises
Fitted(fit) == [raised |-> "", fit |-> fit]

NotFitted(type) == [raised |-> type, fit |-> NoFit]

HasNaN(wrapper, ys) == \E idx \in DOMAIN ys : Apply(wrapper.wy, ys[idx]).nan

\* the AxesWrapper chosen by Scipy1dInterpolator._interpolate
Wrapper1d(axes) ==
    CASE axes = "linear" -> AxesWrapper(<<"linear">>, "linear")
      [] axes = "log" -> AxesWrapper(<<"linear">>, "log")
      [] axes = "loglinear" -> AxesWrapper(<<"log">>, "linear")
      [] axes = "loglog" -> AxesWrapper(<<"log">>, "log")
      [] OTHER -> NoWrapper

\* Scipy1dInterpolator._interpolate
Scipy1d_interpolate(self, tab, series) ==
    LET wrapper == Wrapper1d(self.axes)
        levels == << [i \in DOMAIN tab.rows |-> tab.rows[i].key[1]] >>
        ys == [idx \in GridIndex(levels) |-> series[idx[1]]]
    IN  IF self.axes \notin {"linear", "log", "loglinear", "loglog"}
        THEN NotFitted("ValueError")
        ELSE IF Len(tab.names) # 1 THEN NotFitted("ValueError")
        ELSE IF self.kind \in {"spline", "pchip", "akima"}
        THEN (IF HasNaN(wrapper, ys) THEN NotFitted("ValueError")
              ELSE Fitted(Fit("nan", <<3>>, wrapper, levels, ys)))
        \* any other kind goes to interp1d, which knows these kinds only
        ELSE IF self.kind \notin {"linear", "nearest", "nearest-up", "zero", "slinear",
                                  "quadratic", "cubic", "previous", "next"}
        THEN NotFitted("NotImplementedError")
        ELSE Fitted(Fit("raise", <<IF self.kind \in {"linear", "slinear"} THEN 1 ELSE 3>>,
                        wrapper, levels, ys))

Digit == <<"1", "2", "3", "4", "5">>

\* the kinds matching \Aspline[1-5][1-5]\Z
SplineKinds == {"spline" \o Digit[kx] \o Digit[ky] : kx \in 1..5, ky \in 1..5}

\* kx, ky = int(self.kind[-2]), int(self.kind[-1])
SplineDegrees(kind) ==
    CHOOSE d \in (1..5) \X (1..5) : kind = "spline" \o Digit[d[1]] \o Digit[d[2]]

\* ScipyGridInterpolator._interpolate_linear
interpolate_linear(wrapper, levels, ys) ==
    Fitted(Fit("raise", [d \in DOMAIN levels |-> 1], wrapper, levels, ys))

\* _interpolate_spline without the look for missing grid points
interpolate_spline_lenient(wrapper, levels, ys, kx, ky) ==
    IF Len(levels) # 2 THEN NotFitted("ValueError")
    ELSE IF Len(levels[1]) <= kx \/ Len(levels[2]) <= ky THEN NotFitted("ValueError")
    ELSE Fitted(Fit("clamp", <<kx, ky>>, wrapper, levels, ys))

\* ScipyGridInterpolator._interpolate_spline; RectBivariateSpline needs more
\* knots than the degree on each axis
interpolate_spline(wrapper, levels, ys, kx, ky) ==
    IF Len(levels) # 2 THEN NotFitted("ValueError")
    ELSE IF HasNaN(wrapper, ys) THEN NotFitted("ValueError")
    ELSE IF Len(levels[1]) <= kx \/ Len(levels[2]) <= ky THEN NotFitted("ValueError")
    ELSE Fitted(Fit("clamp", <<kx, ky>>, wrapper, levels, ys))

\* ScipyGridInterpolator._interpolate
ScipyGrid_interpolate(self, tab, series) ==
    LET levels == Levels(tab)
        ys == Unstack(tab, series)
    IN  IF self.wrapper.given /\ Len(self.wrapper.wx) # Len(levels)
        THEN NotFitted("ValueError")
        ELSE IF self.kind = "linear" THEN interpolate_linear(self.wrapper, levels, ys)
        ELSE IF self.kind = "spline" THEN interpolate_spline(self.wrapper, levels, ys, 3, 3)
        ELSE IF self.kind \in SplineKinds
        THEN interpolate_spline(self.wrapper, levels, ys,
                                SplineDegrees(self.kind)[1], SplineDegrees(self.kind)[2])
        ELSE NotFitted("ValueError")

\* the older Scipy1dInterpolator: __init__ picks the wrapper, _interpolate fits
legacy_Scipy1d_interpolate(self, tab, series) ==
    LET wrapper == CASE self.axes = "linear" -> LegacyAxesWrapper(<<"linear">>, "linear", "linear")
                     [] self.axes = "log" -> LegacyAxesWrapper(<<"linear">>, "log", "exp")
                     [] self.axes = "loglinear" -> LegacyAxesWrapper(<<"log">>, "linear", "linear")
                     [] self.axes = "loglog" -> LegacyAxesWrapper(<<"log">>, "log", "exp")
        levels == << [i \in DOMAIN tab.rows |-> tab.rows[i].key[1]] >>
        ys == [idx \in GridIndex(levels) |-> series[idx[1]]]
    IN  IF Len(tab.names) # 1 THEN NotFitted("ValueError")
        ELSE IF self.kind = "cubic"
        THEN (IF HasNaN(wrapper, ys) THEN NotFitted("ValueError")
              ELSE Fitted(Fit("nan", <<3>>, wrapper, levels, ys)))
        ELSE Fitted(Fit("raise", <<1>>, wrapper, levels, ys))

\* the older ScipyGridInterpolator._interpolate
legacy_ScipyGrid_interpolate(self, tab, series) ==
    LET levels == Levels(tab)
        ys == Unstack(tab, series)
    IN  IF Len(self.wrapper.wx) # Len(tab.names) THEN NotFitted("ValueError")
        ELSE IF Len(tab.names) < 2 THEN NotFitted("ValueError")
        ELSE IF self.kind = "linear" THEN interpolate_linear(self.wrapper, levels, ys)
        ELSE IF self.kind = "spline" /\ Len(tab.names) = 2
        THEN (IF HasNaN(self.wrapper, ys) THEN NotFitted("ValueError")
              ELSE IF Len(levels[1]) <= 3 \/ Len(levels[2]) <= 3 THEN NotFitted("ValueError")
              ELSE Fitted(Fit("clamp", <<3, 3>>, self.wrapper, levels, ys)))
        ELSE NotFitted("ValueError")

\* self._interpolate of the interpolator object
interpolate_series(self, tab, series) ==
    IF self.module = "interp"
    THEN (IF self.class = "Scipy1dInterpolator" THEN Scipy1d_interpolate(self, tab, series)
          ELSE ScipyGrid_interpolate(self, tab, series))
    ELSE (IF self.class = "Scipy1dInterpolator" THEN legacy_Scipy1d_interpolate(self, tab, series)
          ELSE legacy_ScipyGrid_interpolate(self, tab, series))

(***************************************************************************)
(* Evaluation of an interpolating function and the interpolation results   *)
(* (interp.Interpolation and the older InterpolationWithUncertainties).    *)
(***************************************************************************)
Inside(ticks, X) == ticks[1] <= X /\ X <= ticks[Len(ticks)]

\* the coordinate RectBivariateSpline evaluates at
Clamp(ticks, X) == Max2(ticks[1], Min2(ticks[Len(ticks)], X))

\* the lower knot of the cell used for X: searchsorted(ticks, X) clipped to 1 .. n-1
CellLow(ticks, X) ==
    Max2(1, Min2(Len(ticks) - 1, Cardinality({k \in DOMAIN ticks : ticks[k] < X})))

\* linear interpolation on one axis, bilinear on two
Multilinear(fit, X) ==
    LET T1 == fit.xs[1]
        i == CellLow(T1, X[1])
        u0 == T1[i + 1] - X[1]
        u1 == X[1] - T1[i]
    IN  IF Len(fit.xs) = 1
        THEN LET a == fit.ys[<<i>>]
                 b == fit.ys[<<i + 1>>]
             IN  IF a.nan \/ b.nan THEN NaN
                 ELSE Num(Round(a.v * u0 + b.v * u1, u0 + u1))
        ELSE LET T2 == fit.xs[2]
                 j == CellLow(T2, X[2])
                 v0 == T2[j + 1] - X[2]
                 v1 == X[2] - T2[j]
                 a == fit.ys[<<i, j>>]
                 b == fit.ys[<<i, j + 1>>]
                 c == fit.ys[<<i + 1, j>>]
                 d == fit.ys[<<i + 1, j + 1>>]
             IN  IF a.nan \/ b.nan \/ c.nan \/ d.nan THEN NaN
                 ELSE Num(Round(a.v * u0 * v0 + b.v * u0 * v1 + c.v * u1 * v0 + d.v * u1 * v1,
                                (u0 + u1) * (v0 + v1)))

\* the fitted function in the modified axes, at the modified point X
BackendEval(fit, X) ==
    IF \A d \in DOMAIN X : Inside(fit.xs[d], X[d]) THEN Return(<<Multilinear(fit, X)>>)
    ELSE CASE fit.outside = "raise" -> Raise("ValueError")
           [] fit.outside = "nan" -> Return(<<NaN>>)
           [] fit.outside = "clamp" ->
                Return(<<Multilinear(fit, [d \in DOMAIN X |-> Clamp(fit.xs[d], X[d])])>>)

\* the function _interpolate returns, called with the list x:
\* wrapped_f of interp.AxesWrapper, correct of the older one, or f_bar itself
EvalFit(fit, x, module) ==
    LET dims == Len(fit.xs)
        wrapped_x == [d \in DOMAIN x |->
                        IF fit.checked THEN Apply(fit.wx[d], Num(x[d].v[1])).v ELSE x[d].v[1]]
        called == BackendEval(fit, wrapped_x)
    IN  IF fit.checked /\ module = "interp" /\ ~is_number_sequence(x, dims) THEN Raise("TypeError")
        ELSE IF fit.checked /\ module # "interp" /\ ~check_seq_length(x, dims) THEN Raise("TypeError")
        ELSE IF ~is_number_sequence(x, dims)
        THEN (IF fit.outside = "raise" THEN Raise("ValueError") ELSE Raise("TypeError"))
        ELSE IF called.kind = "raise" THEN called
        ELSE Return(<<Apply(fit.wy_inv, called.value[1])>>)

\* a (op b), with the exception of a or else of b when one of them raises
Lift2(op(_, _), a, b) ==
    IF a.kind = "raise" THEN a
    ELSE IF b.kind = "raise" THEN b
    ELSE Return(<<op(a.value[1], b.value[1])>>)

Lift1(op(_), a) == IF a.kind = "raise" THEN a ELSE Return(<<op(a.value[1])>>)

\* (a, b, c)
Tuple3(a, b, c) ==
    IF a.kind = "raise" THEN a
    ELSE IF b.kind = "raise" THEN b
    ELSE IF c.kind = "raise" THEN c
    ELSE Return(a.value \o b.value \o c.value)

\* the arguments self._interpret_args leaves for a method of the result
Interpreted(self, args, kwargs) ==
    IF self.module = "interp" THEN interpret_args(self.names, args, kwargs)
    ELSE legacy_interpret_args(self.names, args, kwargs)

\* Interpolation.f0, fp and fm (and those of the older class): which is "f0", "fp" or "fm"
f(self, which, args, kwargs) ==
    LET x == Interpreted(self, args, kwargs)
    IN  IF x.raised # "" THEN Raise(x.raised) ELSE EvalFit(self[which], x.xs, self.module)

\* Interpolation.unc_p_at: self._fp(x) - self._f0(x)
unc_p_at(self, args, kwargs) ==
    LET x == Interpreted(self, args, kwargs)
    IN  IF x.raised # "" THEN Raise(x.raised)
        ELSE Lift2(FSub, EvalFit(self.fp, x.xs, self.module), EvalFit(self.f0, x.xs, self.module))

\* unc_m_at without the leading minus sign: self._f0(x) - self._fm(x)
unc_m_at_magnitude(self, args, kwargs) ==
    LET x == Interpreted(self, args, kwargs)
    IN  IF x.raised # "" THEN Raise(x.raised)
        ELSE Lift2(FSub, EvalFit(self.f0, x.xs, self.module), EvalFit(self.fm, x.xs, self.module))

\* Interpolation.unc_m_at: -(self._f0(x) - self._fm(x))
unc_m_at(self, args, kwargs) ==
    LET x == Interpreted(self, args, kwargs)
    IN  IF x.raised # "" THEN Raise(x.raised)
        ELSE Lift1(FNeg, Lift2(FSub, EvalFit(self.f0, x.xs, self.module),
                                     EvalFit(self.fm, x.xs, self.module)))

\* Interpolation.tuple_at: self._f0(x), self.unc_p_at(*x), self.unc_m_at(*x)
tuple_at(self, args, kwargs) ==
    LET x == Interpreted(self, args, kwargs)
    IN  IF x.raised # "" THEN Raise(x.raised)
        ELSE Tuple3(IF self.module = "interp" THEN EvalFit(self.f0, x.xs, self.module)
                    ELSE f(self, "f0", x.xs, <<>>),
                    unc_p_at(self, x.xs, <<>>),
                    unc_m_at(self, x.xs, <<>>))

\* kwargs.get("unc_level", 0)
UncLevel(kwargs) ==
    LET at == {i \in DOMAIN kwargs : kwargs[i].name = "unc_level"}
    IN  IF at = {} THEN 0 ELSE kwargs[CHOOSE i \in at : TRUE].value.v[1]

\* the older __call__ with the level applied to unc_m_at itself, not to its absolute value
legacy_call_signed(self, args, kwargs) ==
    LET unc_level == UncLevel(kwargs)
        central == f(self, "f0", args, <<>>)
    IN  IF unc_level > 0
        THEN Lift2(FAdd, central, Lift1(LAMBDA u : FScale(unc_level, u), unc_p_at(self, args, <<>>)))
        ELSE IF unc_level < 0
        THEN Lift2(FAdd, central, Lift1(LAMBDA u : FScale(unc_level, u), unc_m_at(self, args, <<>>)))
        ELSE central

\* InterpolationWithUncertainties.__call__
legacy_call(self, args, kwargs) ==
    LET unc_level == UncLevel(kwargs)
        central == f(self, "f0", args, <<>>)
    IN  IF unc_level > 0
        THEN Lift2(FAdd, central, Lift1(LAMBDA u : FScale(unc_level, u), unc_p_at(self, args, <<>>)))
        ELSE IF unc_level < 0
        THEN Lift2(FAdd, central,
                   Lift1(LAMBDA u : FScale(unc_level, FAbs(u)), unc_m_at(self, args, <<>>)))
        ELSE central

\* the call of the result itself: __call__ = f0 in interp.Interpolation
call(self, args, kwargs) ==
    IF self.module = "interp" THEN f(self, "f0", args, kwargs)
    ELSE legacy_call(self, args, kwargs)

\* getattr(result, method)(*args, **kwargs)
Invoke(self, method, args, kwargs) ==
    CASE method \in {"f0", "fp", "fm"} -> f(self, method, args, kwargs)
      [] method = "unc_p_at" -> unc_p_at(self, args, kwargs)
      [] method = "unc_m_at" -> unc_m_at(self, args, kwargs)
      [] method = "tuple_at" -> tuple_at(self, args, kwargs)
      [] method = "call" -> call(self, args, kwargs)

\* the three fits in the order they are made; the first exception wins
Interpolation(self, tab, central, upper, lower) ==
    IF central.raised # "" THEN [raised |-> central.raised, interp |-> NoInterp]
    ELSE IF upper.raised # "" THEN [raised |-> upper.raised, interp |-> NoInterp]
    ELSE IF lower.raised # "" THEN [raised |-> lower.raised, interp |-> NoInterp]
    ELSE [raised |-> "",
          interp |-> [module |-> self.module, names |-> tab.names,
                      f0 |-> central.fit, fp |-> upper.fit, fm |-> lower.fit]]

\* the table after an abs() applied to its column unc- in place
table_with_abs_in_place(self, tab) ==
    [tab EXCEPT !.rows = [i \in DOMAIN tab.rows |-> [tab.rows[i] EXCEPT !.uncm = Abs(@)]]]

\* interpolate with the lower series built from unc- as it is stored
interpolate_signed(self, tab) ==
    Interpolation(self, tab,
                  interpolate_series(self, tab, ValueSeries(tab)),
                  interpolate_series(self, tab, UpperSeries(tab)),
                  interpolate_series(self, tab, LowerSeriesSigned(tab)))

\* AbstractInterpolator.interpolate
interpolate(self, tab) ==
    Interpolation(self, tab,
                  interpolate_series(self, tab, ValueSeries(tab)),
                  interpolate_series(self, tab, UpperSeries(tab)),
                  interpolate_series(self, tab, LowerSeries(tab)))

(***************************************************************************)
(* Inputs of the interpolation: interpolator objects, tables and queries.  *)
(***************************************************************************)
\* the largest |unc_level| passed to the call of a result
MaxLevel == 2

Interpolator(module, class, kind, axes, wrapper) ==
    [module |-> module, class |-> class, kind |-> kind, axes |-> axes, wrapper |-> wrapper]

Interpolators ==
    {Interpolator("interp", "Scipy1dInterpolator", kind, axes, NoWrapper) :
        kind \in {"linear", "spline", "pchip", "akima"},
        axes \in {"linear", "log", "loglinear", "loglog"}}
    \cup {Interpolator("interp", "Scipy1dInterpolator", "linear", "semilog", NoWrapper),
          Interpolator("interp", "Scipy1dInterpolator", "polynomial", "linear", NoWrapper)}
    \cup {Interpolator("interp", "ScipyGridInterpolator", kind, "", wrapper) :
        kind \in {"linear", "spline", "spline11", "cubic"},
        wrapper \in {NoWrapper,
                     AxesWrapper(<<"linear", "linear">>, "linear"),
                     AxesWrapper(<<"log", "linear">>, "log"),
                     AxesWrapper(<<"log">>, "log")}}
    \cup {Interpolator("legacy", "Scipy1dInterpolator", kind, axes, NoWrapper) :
        kind \in {"linear", "cubic"},
        axes \in {"linear", "log", "loglinear", "loglog"}}
    \cup {Interpolator("legacy", "ScipyGridInterpolator", kind, "", wrapper) :
        kind \in {"linear", "spline"},
        wrapper \in {LegacyAxesWrapper(<<"linear", "linear">>, "linear", ""),
                     LegacyAxesWrapper(<<"log", "log">>, "log", "")}}

\* a table row whose value is 10^(k/2), with the upper and the lower value
\* half a decade away ("narrow"), or with the lower value below zero
\* ("wide"); unc- is stored non-negative as BaseFile does or non-positive as
\* the older CrossSectionTable does
GridRow(key, k, unc_m_sign, width) ==
    LET value == HalfDecades[k + 1]
        unc_m == IF width = "narrow" THEN value - HalfDecades[k] ELSE value + (value \div 10)
    IN  [key |-> key, value |-> value,
         uncp |-> HalfDecades[k + 2] - value,
         uncm |-> unc_m_sign * unc_m]

Table1d(unc_m_sign, width) ==
    [names |-> <<"m">>,
     rows  |-> << GridRow(<<10>>, 8, unc_m_sign, width),
                  GridRow(<<100>>, 6, unc_m_sign, width),
                  GridRow(<<1000>>, 4, unc_m_sign, width) >>]

Table2d(ticks, top, slope, unc_m_sign) ==
    [names |-> <<"msq", "mgl">>,
     rows  |-> [n \in 1..(Len(ticks) * Len(ticks)) |->
                  LET i == ((n - 1) \div Len(ticks)) + 1
                      j == ((n - 1) % Len(ticks)) + 1
                  IN  GridRow(<<ticks[i], ticks[j]>>, top - slope * i - j, unc_m_sign, "narrow")]]

\* a table whose value rises by two decades between the first two grid
\* points while its uncertainties fall from 9 to 0
TableSteep ==
    [names |-> <<"m">>,
     rows  |-> << [key |-> <<10>>, value |-> 1, uncp |-> 9, uncm |-> 0],
                  [key |-> <<100>>, value |-> 100, uncp |-> 0, uncm |-> 0],
                  [key |-> <<1000>>, value |-> 1000, uncp |-> 2162, uncm |-> 684] >>]

\* the table of a data file that lacks the first grid point
Incomplete(tab) == [tab EXCEPT !.rows = Tail(@)]

Tables ==
    {Table1d(1, "narrow"), Table1d(-1, "narrow"), Table1d(1, "wide"),
     Table2d(<<10, 100>>, 11, 2, 1), Table2d(<<10, 32, 100, 316>>, 10, 1, -1),
     Incomplete(Table2d(<<10, 32, 100, 316>>, 10, 1, -1)), TableSteep}

\* the coordinates asked for on an axis with the given knots: below the
\* range, the first two knots and the point midway between them on the
\* (linear or logarithmic) axis, the last knot, above the range
Coordinates(ticks, axis) ==
    LET n == Len(ticks)
        mid == IF axis = "log10"
               THEN {x \in Range(HalfDecades) :
                        2 * log10(Num(x)).v = log10(Num(ticks[1])).v + log10(Num(ticks[2])).v}
               ELSE {(ticks[1] + ticks[2]) \div 2}
    IN  {3, ticks[1], ticks[2], ticks[n], HalfDecades[log10(Num(ticks[n])).v + 2]} \cup mid

\* the points asked for
Points(self, tab) ==
    LET levels == Levels(tab)
        axis(d) == IF self.f0.checked THEN self.f0.wx[d] ELSE "identity"
    IN  IF Len(levels) = 1
        THEN {<<a>> : a \in Coordinates(levels[1], axis(1))}
        ELSE {<<a, b>> : a \in Coordinates(levels[1], axis(1)),
                         b \in Coordinates(levels[2], axis(2))}

\* the fit is determined at the point: on each axis the degree is 1, or the
\* coordinate is outside the range or on a knot
Determined(fit, point) ==
    \A d \in DOMAIN point :
        LET X == IF fit.checked THEN Apply(fit.wx[d], Num(point[d])).v ELSE point[d]
        IN  fit.degree[d] = 1 \/ ~Inside(fit.xs[d], X) \/ X \in Range(fit.xs[d])

Forms ==
    {"positional", "sequence", "keywords", "reversed", "mixed", "override", "unknown", "few",
     "gap"}

Keyword(name, a) == [name |-> name, value |-> Item(a)]

\* the positional and the keyword arguments that pass the point in the given form
Arguments(form, names, point) ==
    LET n == Len(point)
        items == [i \in 1..n |-> Item(point[i])]
    IN  CASE form = "positional" -> [args |-> items, kwargs |-> <<>>]
          [] form = "sequence" -> [args |-> <<ListItem(point)>>, kwargs |-> <<>>]
          [] form = "keywords" ->
                [args |-> <<>>, kwargs |-> [i \in 1..n |-> Keyword(names[i], point[i])]]
          [] form = "reversed" ->
                [args |-> <<>>,
                 kwargs |-> [i \in 1..n |-> Keyword(names[n + 1 - i], point[n + 1 - i])]]
          [] form = "mixed" ->
                [args |-> SubSeq(items, 1, n - 1),
                 kwargs |-> <<Keyword(names[n], point[n])>>]
          [] form = "override" ->
                [args |-> [i \in 1..n |-> IF i = 1 THEN Item(IF point[1] = 3 THEN 10 ELSE 3)
                                          ELSE items[i]],
                 kwargs |-> <<Keyword(names[1], point[1])>>]
          [] form = "unknown" ->
                [args |-> items, kwargs |-> <<Keyword("m_wino", point[1])>>]
          [] form = "few" -> [args |-> SubSeq(items, 1, n - 1), kwargs |-> <<>>]
          [] form = "gap" -> [args |-> <<>>, kwargs |-> <<Keyword(names[n], point[n])>>]

Methods == {"f0", "fp", "fm", "unc_p_at", "unc_m_at", "tuple_at"}

MakeQuery(method, form, names, point, kwargs) ==
    [method |-> method, form |-> form, point |-> point,
     args   |-> Arguments(form, names, point).args,
     kwargs |-> Arguments(form, names, point).kwargs \o kwargs]

(***************************************************************************)
(* interpolator.interpolate(table) and the queries on its result.          *)
(***************************************************************************)
InitInterp ==
    /\ pc = "constructed"
    /\ interpolator \in Interpolators
    /\ table \in Tables
    /\ interp = NoInterp
    /\ query = NoQuery
    /\ result = NoResult
    /\ error = NoError
    /\ heap = <<>>
    /\ annotation = [document |-> FALSE, columns |-> <<>>, parameters |-> <<>>, values |-> <<>>]
    /\ info = NoInfo
    /\ raw_data = <<>>
    /\ tables = <<>>
    /\ warnings = <<>>

\* interp = interpolator.interpolate(table)
Interpolate ==
    /\ pc = "constructed"
    /\ LET made == interpolate(interpolator, table)
       IN  IF made.raised = ""
           THEN /\ interp' = made.interp
                /\ pc' = "interpolated"
                /\ error' = error
           ELSE /\ interp' = interp
                /\ pc' = "interpolate_failed"
                /\ error' = Error(made.raised, "interpolate")
    /\ UNCHANGED <<annotation, info, raw_data, tables, warnings,
                   heap, interpolator, table, query, result>>

\* result = interp.<method>(...) for one of the six methods; a run makes one query
Query ==
    /\ pc = "interpolated"
    /\ \E method \in Methods, form \in Forms, point \in Points(interp, table) :
          /\ Determined(interp.f0, point)
          /\ form \in {"reversed", "mixed", "gap"} => Len(point) > 1
          /\ query' = MakeQuery(method, form, interp.names, point, <<>>)
          /\ result' = Invoke(interp, method, query'.args, query'.kwargs)
    /\ pc' = "queried"
    /\ UNCHANGED <<annotation, info, raw_data, tables, error, warnings,
                   heap, interpolator, table, interp>>

\* result = interp(...), with or without unc_level; a run makes one query
Call ==
    /\ pc = "interpolated"
    /\ \E form \in Forms \ {"unknown", "few", "gap"}, point \in Points(interp, table),
          given \in BOOLEAN, level \in (-MaxLevel)..MaxLevel :
          /\ Determined(interp.f0, point)
          /\ form \in {"reversed", "mixed"} => Len(point) > 1
          /\ level # 0 => given /\ form = "positional"
          /\ query' = MakeQuery("call", form, interp.names, point,
                                IF given THEN <<Keyword("unc_level", level)>> ELSE <<>>)
          /\ result' = Invoke(interp, "call", query'.args, query'.kwargs)
    /\ pc' = "queried"
    /\ UNCHANGED <<annotation, info, raw_data, tables, error, warnings,
                   heap, interpolator, table, interp>>

NextInterp == Interpolate \/ Query \/ Call

SpecInterp == InitInterp /\ [][NextInterp]_vars

(***************************************************************************)
(* Properties of the tables BaseFile builds.                               *)
(***************************************************************************)
\* the file object exists: __init__ returned without raising
Built == pc = "ready"

SetMax(S) == IF S = {} THEN 0 ELSE CHOOSE m \in S : \A x \in S : x <= m

\* the sources of one direction, and the magnitude stored for it in a table row
SourcesOf(v, dir) == IF dir = 1 THEN v.unc_p ELSE v.unc_m

StoredMagnitude(r, dir) == IF dir = 1 THEN Abs(r.uncp) ELSE Abs(r.uncm)

\* the columns of a source that survive the filter, judged on the converted row
Surviving(row, src, dir) ==
    {c \in Range(src.cols) : ~IsSigned(src.type) \/ row[c] * dir > 0}

\* the columns of a source that survive the filter, judged on the raw row
SurvivingRaw(raw, src, dir) ==
    {c \in Range(src.cols) : ~IsSigned(src.type) \/ raw[c] * dir > 0}

GroupMaxima(row, srcs, dir) ==
    [k \in DOMAIN srcs |-> SetMax({Abs(row[c]) : c \in Surviving(row, srcs[k], dir)})]

GroupMaximaRaw(row, raw, srcs, dir) ==
    [k \in DOMAIN srcs |-> SetMax({Abs(row[c]) : c \in SurvivingRaw(raw, srcs[k], dir)})]

\* the squares of every surviving candidate of every source, summed
FlatSurviving(row, srcs, dir) ==
    SumSquares(Concat([k \in DOMAIN srcs |->
        unc_candidates(row, srcs[k].cols, srcs[k].type, dir)]))

\* the squares of every candidate column of every source, summed
FlatAll(row, srcs) ==
    SumSquares(Concat([k \in DOMAIN srcs |->
        [j \in DOMAIN srcs[k].cols |-> Abs(row[srcs[k].cols[j]])]]))

\* P(name, i, dir) for every row i of every built table and both directions
ForEveryRow(P(_, _, _)) ==
    \A name \in ValueNames(info) : \A i \in DOMAIN tables[name] : \A dir \in {1, -1} :
        P(name, i, dir)

ForSomeRow(P(_, _, _)) ==
    \E name \in ValueNames(info) : \E i \in DOMAIN tables[name] : \E dir \in {1, -1} :
        P(name, i, dir)

ConvertedRow(name, i) == NormalizedRow(info, ValueInfoOf(info, name), raw_data[i])

\* C1: in every row of a built table and for each direction, the combined
\* uncertainty magnitude is the square root of the sum over the sources of the
\* squared maximum among the surviving candidates of the source (0 for a
\* source without survivors); it never exceeds the flat quadrature sum over
\* the surviving candidates, which it may equal.
C1_GroupMaxQuadrature ==
    Built => ForEveryRow(LAMBDA name, i, dir :
        LET srcs == SourcesOf(ValueInfoOf(info, name), dir)
            row == ConvertedRow(name, i)
            stored == StoredMagnitude(tables[name][i], dir)
        IN  /\ stored = Sqrt(SumSquares(GroupMaxima(row, srcs, dir)))
            /\ (\A k \in DOMAIN srcs : Surviving(row, srcs[k], dir) = {}) => stored = 0
            /\ stored <= Sqrt(FlatSurviving(row, srcs, dir)))

\* C1, a row where the group maximum and the flat sum differ: two surviving
\* candidates of one source are both non-zero
C1_MaxBelowFlat ==
    Built /\ ForSomeRow(LAMBDA name, i, dir :
        LET srcs == SourcesOf(ValueInfoOf(info, name), dir)
            row == ConvertedRow(name, i)
            stored == StoredMagnitude(tables[name][i], dir)
        IN  /\ Len(srcs) > 1
            /\ stored > 0
            /\ stored < Sqrt(FlatSurviving(row, srcs, dir)))

\* C1 as stated: in addition, whenever a source has more than one column the
\* combined magnitude differs from the flat quadrature sum over all candidates
C1_NeverFlat ==
    Built => ForEveryRow(LAMBDA name, i, dir :
        LET srcs == SourcesOf(ValueInfoOf(info, name), dir)
            row == ConvertedRow(name, i)
            stored == StoredMagnitude(tables[name][i], dir)
        IN  /\ stored = Sqrt(SumSquares(GroupMaxima(row, srcs, dir)))
            /\ (\E k \in DOMAIN srcs : Len(srcs[k].cols) > 1)
                  => stored # Sqrt(FlatAll(row, srcs)))

\* C2: every row of every built table has unc+ >= 0 and unc- <= 0
C2_UncertaintySigns ==
    Built => \A name \in ValueNames(info) : \A i \in DOMAIN tables[name] :
        tables[name][i].uncp >= 0 /\ tables[name][i].uncm <= 0

\* C3: a candidate of a signed source counts for the positive direction iff
\* its raw entry is > 0 and for the negative direction iff its raw entry is
\* < 0, whatever the sign of the central value; an unsigned source keeps all
C3_SignOfRawEntry ==
    Built => ForEveryRow(LAMBDA name, i, dir :
        LET srcs == SourcesOf(ValueInfoOf(info, name), dir)
            row == ConvertedRow(name, i)
        IN  /\ \A k \in DOMAIN srcs :
                  Surviving(row, srcs[k], dir) = SurvivingRaw(raw_data[i], srcs[k], dir)
            /\ StoredMagnitude(tables[name][i], dir)
                  = Sqrt(SumSquares(GroupMaximaRaw(row, raw_data[i], srcs, dir))))

\* two raw rows with the same parameter tuple after quantization
Collision(i, j) ==
    i # j /\ IndexKey(info, raw_data[i]) = IndexKey(info, raw_data[j])

HasCollision == \E i, j \in DOMAIN raw_data : Collision(i, j)

\* the construction went as far as BaseFile.validate
Validated == pc = "ready" \/ (pc = "failed" /\ tables # <<>>)

\* C4: when two raw rows collide after quantization the construction fails
\* with a ValueError carrying the table name and the colliding key, and a
\* built file has one row per raw row, each with its own value
C4_DuplicatesRejected ==
    /\ (Validated /\ HasCollision) =>
          /\ pc = "failed"
          /\ error.type = "ValueError"
          /\ error.msg = "Found duplicated entries"
          /\ error.table \in ValueNames(info)
          /\ \E i, j \in DOMAIN raw_data :
                Collision(i, j) /\ error.key = IndexKey(info, raw_data[i])
    /\ Built =>
          /\ ~HasCollision
          /\ \A name \in ValueNames(info) :
                /\ Len(tables[name]) = Len(raw_data)
                /\ \A i \in DOMAIN raw_data :
                      /\ tables[name][i].key = IndexKey(info, raw_data[i])
                      /\ tables[name][i].value = raw_data[i][name]

\* C4, the failing construction: two different raw parameters made equal by
\* the granularity
C4_CollisionFound ==
    /\ pc = "failed"
    /\ error.msg = "Found duplicated entries"
    /\ \E i, j \in DOMAIN raw_data :
          Collision(i, j) /\ raw_data[i].m # raw_data[j].m

\* the parameters with a granularity
Quantized == {k \in DOMAIN info.parameters : info.parameters[k].granularity > 0}

\* C5: an index component of a parameter with granularity g > 0 is
\* round(v / g) * g, the multiple of g nearest to the raw value v (the even
\* multiple on a tie), and quantizing the keys again changes nothing
C5_QuantizedOnce ==
    Validated => \A name \in ValueNames(info) : \A i \in DOMAIN tables[name] :
        \A k \in Quantized :
            LET g == info.parameters[k].granularity
                v == raw_data[i][info.parameters[k].column]
                key == tables[name][i].key[k]
            IN  /\ key % g = 0
                /\ 2 * Abs(key - v) <= g
                /\ 2 * Abs(key - v) = g => (key \div g) % 2 = 0
                /\ quantize(key, g) = key
                /\ quantize(quantize(v, g), g) = quantize(v, g)

\* C5, a raw parameter that is moved by the quantization
C5_ParameterMoved ==
    Validated /\ \E name \in ValueNames(info) : \E i \in DOMAIN tables[name] :
        \E k \in Quantized :
            /\ tables[name][i].key[k] # raw_data[i][info.parameters[k].column]
            /\ quantize(tables[name][i].key[k], info.parameters[k].granularity)
                  = tables[name][i].key[k]

(***************************************************************************)
(* Properties of the interpolation results.                                *)
(***************************************************************************)
Queried == pc = "queried"

\* the parameter tuple passed as positional floats
Positional(point) == [i \in DOMAIN point |-> Item(point[i])]

\* the rows of the table at the point
RowsAt(point) == {i \in DOMAIN table.rows : table.rows[i].key = point}

\* some coordinate of the point is strictly outside the range of its axis
OutOfRange(point) ==
    \E d \in DOMAIN point :
        \A i \in DOMAIN table.rows : point[d] < table.rows[i].key[d]
                                     \/ \A j \in DOMAIN table.rows : point[d] > table.rows[j].key[d]

\* the interpolator works on a logarithmic value axis
LogValueAxis ==
    IF interpolator.class = "Scipy1dInterpolator" THEN interpolator.axes \in {"log", "loglog"}
    ELSE interpolator.wrapper.given /\ interpolator.wrapper.wy = "log10"

\* the value of a result that returned one number
Value(r) == r.value[1]

\* the interpolation of one series of numbers (one per row of the table) at a point
Interpolated(series, point) ==
    EvalFit(interpolate_series(interpolator, table, series).fit, Positional(point), interp.module)

\* C6: tuple_at(x) is (f0(x), fp(x) - f0(x), -(f0(x) - fm(x))) where f0, fp and
\* fm interpolate the three series value, value + unc+ and value - |unc-| of
\* the table, each on its own; the columns unc+ and unc- are not interpolated.
C6_TupleFromThreeFits ==
    (Queried /\ query.method = "tuple_at" /\ result.kind = "return") =>
        LET rows == table.rows
            F0 == Value(Interpolated([i \in DOMAIN rows |-> Num(rows[i].value)], query.point))
            FP == Value(Interpolated([i \in DOMAIN rows |-> Num(rows[i].value + rows[i].uncp)],
                                     query.point))
            FM == Value(Interpolated([i \in DOMAIN rows |-> Num(rows[i].value - Abs(rows[i].uncm))],
                                     query.point))
        IN  result.value = <<F0, FSub(FP, F0), FNeg(FSub(F0, FM))>>

\* C6 (a case): between two knots of a logarithmic value axis tuple_at gives
\* the differences of the three fits, which are not the means of the columns
\* unc+ and unc- of the two rows
C6_BetweenKnots ==
    /\ Queried /\ query.method = "tuple_at" /\ query.form = "positional"
    /\ interpolator.class = "Scipy1dInterpolator" /\ interpolator.module = "interp"
    /\ interpolator.kind = "linear" /\ interpolator.axes = "log"
    /\ table = Table1d(-1, "narrow")
    /\ query.point = <<55>>
    /\ result = Return(<<Num(3162), Num(10000 - 3162), Num(-(3162 - 1000))>>)
    /\ Value(result) # Num(Round(table.rows[1].value + table.rows[2].value, 2))
    /\ result.value[2] # Num(Round(table.rows[1].uncp + table.rows[2].uncp, 2))
    /\ result.value[3] # Num(Round(table.rows[1].uncm + table.rows[2].uncm, 2))

\* f0 and tuple_at give what is stored at the point of the query
StoredAtPoint ==
    \A i \in RowsAt(query.point) :
        /\ query.method = "f0" => result = Return(<<Num(table.rows[i].value)>>)
        /\ query.method = "tuple_at" =>
              result = Return(<<Num(table.rows[i].value), Num(table.rows[i].uncp),
                                Num(-Abs(table.rows[i].uncm))>>)

\* value, value + unc+ and value - |unc-| are positive in every row
PositiveSeries ==
    \A i \in DOMAIN table.rows :
        /\ table.rows[i].value > 0
        /\ table.rows[i].value + table.rows[i].uncp > 0
        /\ table.rows[i].value - Abs(table.rows[i].uncm) > 0

\* every combination of the parameter values of the rows is a row: the table
\* is a complete grid
CompleteGrid ==
    \A i, j \in DOMAIN table.rows :
        \E k \in DOMAIN table.rows :
            /\ table.rows[k].key[1] = table.rows[i].key[1]
            /\ \A d \in DOMAIN table.names : d > 1 => table.rows[k].key[d] = table.rows[j].key[d]

\* C7 (as amended): for every interpolator that fits the table and every grid
\* point p of the table, f0(p) is the stored central value and tuple_at(p) is
\* the stored (value, unc+, -|unc-|), provided that the table is a complete
\* grid and that on a logarithmic value axis value, value + unc+ and value -
\* |unc-| are positive in every row.
C7_ExactAtKnots ==
    (/\ Queried /\ query.form = "positional"
     /\ CompleteGrid
     /\ LogValueAxis => PositiveSeries)
    => StoredAtPoint

\* C7 (a case): tuple_at at a grid point under a logarithmic value axis and a
\* fit of degree three
C7_KnotOnLogAxis ==
    /\ Queried /\ query.form = "positional" /\ query.method = "tuple_at"
    /\ LogValueAxis /\ PositiveSeries /\ CompleteGrid
    /\ interpolator.kind \in {"spline", "pchip", "akima", "cubic"}
    /\ RowsAt(query.point) # {}
    /\ result.kind = "return"
    /\ StoredAtPoint

\* C7 (as stated): for every interpolator and every grid point p of the
\* table, f0(p) is the stored central value and tuple_at(p) is the stored
\* (value, unc+, -|unc-|).
C7_ExactAtKnotsAlways ==
    (Queried /\ query.form = "positional") => StoredAtPoint

\* C8 (as stated): for the kinds linear, spline, pchip and akima in one
\* dimension and linear and spline on a grid, a query with a coordinate
\* strictly outside the range of its axis raises an error.
C8_OutOfRangeRaises ==
    (/\ Queried /\ query.form = "positional" /\ query.method \in Methods
     /\ interpolator.module = "interp"
     /\ interpolator.kind \in {"linear", "spline", "pchip", "akima"}
     /\ OutOfRange(query.point))
    => result.kind = "raise"

\* f0, unc_p_at and unc_m_at at the point of the query, called with positional floats
AtPoint(method) == Invoke(interp, method, Positional(query.point), <<>>)

\* f0 + L * unc_p_at for L > 0, f0 + L * |unc_m_at| for L < 0, f0 for L = 0
WithLevel(L) ==
    LET c == Value(AtPoint("f0"))
    IN  IF L > 0 THEN FAdd(c, FScale(L, Value(AtPoint("unc_p_at"))))
        ELSE IF L < 0 THEN FAdd(c, FScale(L, FAbs(Value(AtPoint("unc_m_at")))))
        ELSE c

\* the call result(*params, unc_level=L) of the query, where f0 returns at params
CalledWithLevel ==
    /\ Queried /\ query.method = "call" /\ query.form = "positional"
    /\ query.kwargs # <<>>
    /\ AtPoint("f0").kind = "return"

\* C9 (as amended): for the result of the older interpolators
\* (InterpolationWithUncertainties), result(*params, unc_level=L) is
\* f0(params) + L * unc_p_at(params) when L > 0, f0(params) + L *
\* |unc_m_at(params)| when L < 0 and f0(params) when L = 0.
C9_CallWithLevelLegacy ==
    (CalledWithLevel /\ interp.module = "legacy") =>
        result = Return(<<WithLevel(UncLevel(query.kwargs))>>)

\* C9 (a case): a negative level on a result whose unc_m_at is not zero
C9_NegativeLevel ==
    /\ CalledWithLevel /\ interp.module = "legacy"
    /\ UncLevel(query.kwargs) = -MaxLevel
    /\ result.kind = "return" /\ ~Value(result).nan
    /\ Value(AtPoint("unc_m_at")).v < 0
    /\ Value(result).v = Value(AtPoint("f0")).v + MaxLevel * Value(AtPoint("unc_m_at")).v

\* C9 (as stated): for every interpolation result, result(*params,
\* unc_level=L) is f0(params) + L * unc_p_at(params) when L > 0, f0(params) +
\* L * |unc_m_at(params)| when L < 0 and f0(params) when L = 0.
C9_CallWithLevel ==
    CalledWithLevel => result = Return(<<WithLevel(UncLevel(query.kwargs))>>)

\* the forms a parameter tuple may be passed in; the older result takes no sequence
PassingForms ==
    IF interp.module = "interp"
    THEN {"positional", "sequence", "keywords", "reversed", "mixed", "override"}
    ELSE {"positional", "keywords", "reversed", "mixed", "override"}

BadArguments == Queried /\ query.method \in Methods /\ query.form \in {"unknown", "gap", "few"}

InterpolateCalled == pc # "constructed" /\ interpolator.module = "interp"

\* interpolate() raised the exception and gave no result, and no query was made
InterpolateRaised(type) ==
    /\ pc = "interpolate_failed"
    /\ error.type = type
    /\ interp = NoInterp /\ query = NoQuery /\ result = NoResult

OneDim == interpolator.class = "Scipy1dInterpolator"

\* a spline kind of ScipyGridInterpolator
GridSpline ==
    /\ interpolator.class = "ScipyGridInterpolator"
    /\ interpolator.kind \in {"spline", "spline11", "spline33"}

\* (a) to (d), and (e) for the axes of a one-dimensional and the kind of a
\* grid interpolator
RejectedByInterpolate ==
    \/ OneDim /\ Len(table.names) > 1
    \/ OneDim /\ interpolator.axes \notin {"linear", "log", "loglinear", "loglog"}
    \/ /\ interpolator.class = "ScipyGridInterpolator"
       /\ \/ interpolator.wrapper.given /\ Len(interpolator.wrapper.wx) # Len(table.names)
          \/ GridSpline /\ Len(table.names) # 2
          \/ GridSpline /\ ~CompleteGrid
          \/ interpolator.kind \notin {"linear", "spline", "spline11", "spline33"}

\* a kind of Scipy1dInterpolator that neither the class nor interp1d knows,
\* on a table and axes that are accepted
UnknownKind1d ==
    /\ OneDim /\ Len(table.names) = 1
    /\ interpolator.axes \in {"linear", "log", "loglinear", "loglog"}
    /\ interpolator.kind \notin {"linear", "spline", "pchip", "akima"}

\* C12 (as amended): interpolate() raises ValueError in the call itself when
\* (a) Scipy1dInterpolator is given a table with more than one parameter, (b)
\* the axes wrapper of ScipyGridInterpolator has not as many transforms as
\* the table has parameters, (c) a spline kind meets a table that has not two
\* parameters, (d) a spline kind meets a grid with a missing point, or (e)
\* the axes of Scipy1dInterpolator or the kind of ScipyGridInterpolator is
\* not recognised; an unrecognised kind of Scipy1dInterpolator is handed to
\* interp1d, which raises NotImplementedError in the call.
C12_InterpolateRejects ==
    InterpolateCalled =>
        /\ RejectedByInterpolate => InterpolateRaised("ValueError")
        /\ (UnknownKind1d /\ ~RejectedByInterpolate) => InterpolateRaised("NotImplementedError")

\* C12 (a case): a spline on a grid of two parameters that lacks a point
C12_SplineOnIncompleteGrid ==
    /\ InterpolateCalled /\ GridSpline /\ interpolator.kind = "spline"
    /\ Len(table.names) = 2 /\ ~CompleteGrid
    /\ ~interpolator.wrapper.given
    /\ Len(table.rows) = 15
    /\ InterpolateRaised("ValueError")

\* C12 (as stated): interpolate() raises ValueError in the call itself in the
\* cases (a) to (d) and (e) whenever the kind or the axes name is not
\* recognised.
C12_InterpolateRejectsValueError ==
    (InterpolateCalled /\ (RejectedByInterpolate \/ UnknownKind1d))
    => InterpolateRaised("ValueError")

\* the AxesWrapper the interpolator works through
WrapperOf == IF OneDim THEN Wrapper1d(interpolator.axes) ELSE interpolator.wrapper

\* the inverse expected for a predefined name
ExpectedInverse(name) ==
    IF name \in {"identity", "id", "linear"} THEN "identity"
    ELSE IF name \in {"log", "log10"} THEN "exp10"
    ELSE "log10"

\* f0 of the query goes through wrapped_f of an AxesWrapper with a whole tuple of numbers
ThroughWrapper ==
    /\ Queried /\ interp.module = "interp" /\ WrapperOf.given
    /\ query.method = "f0" /\ query.form = "positional"

\* C13: wrapped_f(f_bar)(x) is wy_inv(f_bar([wx[0](x0), ..., wx[d-1](x_{d-1})]));
\* with wy given by a predefined name and no wy_inv, wy_inv is the predefined
\* inverse (identity for identity/id/linear, exp10 for log/log10, log10 for
\* exp/exp10), and wy_inv(wy(y)) = y.
C13_WrappedFunction ==
    /\ \A name \in DOMAIN predefined_function_names :
          /\ AxesWrapper(<<>>, name).wy_inv = ExpectedInverse(name)
          /\ \A k \in 0..(Len(HalfDecades) - 1) :
                LET y == IF ExpectedInverse(name) = "log10" THEN Num(k)
                         ELSE Num(HalfDecades[k + 1])
                IN  Apply(AxesWrapper(<<>>, name).wy_inv, Apply(AxesWrapper(<<>>, name).wy, y)) = y
    /\ ThroughWrapper =>
          LET X == [d \in DOMAIN query.point |->
                      Apply(WrapperOf.wx[d], Num(query.point[d])).v]
              called == BackendEval(interp.f0, X)
          IN  /\ interp.f0.wy_inv = ExpectedInverse(WrapperOf.wy)
              /\ result = IF called.kind = "raise" THEN called
                          ELSE Return(<<Apply(ExpectedInverse(WrapperOf.wy), Value(called))>>)

\* C13 (a case): log-log axes, the point midway between two knots on the log
\* axis gives the value midway on the log axis
C13_LogLogMidpoint ==
    /\ ThroughWrapper
    /\ OneDim /\ interpolator.axes = "loglog" /\ interpolator.kind = "linear"
    /\ table = Table1d(1, "narrow")
    /\ query.point = <<32>>
    /\ interp.f0.wx = <<"log10">> /\ interp.f0.wy_inv = "exp10"
    /\ result = Return(<<Num(3162)>>)


(***************************************************************************)
(* utility.Unit as objects.  heap holds the Unit objects constructed so    *)
(* far; an operation names its operands by their position in heap, so that *)
(* an operation which updates an operand in place is told apart from one   *)
(* which returns a new object.  In this specification pc counts the        *)
(* operations performed.                                                   *)
(***************************************************************************)
MaxOps == 3

MaxUnits == 3

\* factors are multiplied only while both are at most MaxFactor a side
MaxFactor == 1000

Small(u) == Abs(u.factor[1]) <= MaxFactor /\ u.factor[2] <= MaxFactor

\* the arguments of Unit(*args): numbers (as fractions) and unit names
UnitArgs ==
    { <<>>,
      <<NumItem(1000, 1)>>,
      <<NumItem(1, 2)>>,
      <<StrItem("")>>,
      <<StrItem("%")>>,
      <<StrItem("fb")>>,
      <<StrItem("pb")>>,
      <<NumItem(1000, 1), StrItem("fb")>>,
      <<StrItem("%"), NumItem(100, 1)>> }

\* Unit.__init__ : self *= u for every argument
RECURSIVE UnitInit(_, _)
UnitInit(self, args) ==
    IF args = <<>> THEN self
    ELSE UnitInit(imul_name(self, args[1]), Tail(args))

\* Unit.__mul__ on the heap: the product is a new object
mul_in_place(objects, i, j) ==
    Append([objects EXCEPT ![i] = imul_unit(@, objects[j])], imul_unit(objects[i], objects[j]))

mul(objects, i, j) == Append(objects, UnitMul(objects[i], objects[j]))

\* Unit.__truediv__ on the heap
truediv(objects, i, j) == Append(objects, UnitDiv(objects[i], objects[j]))

\* Unit.__imul__ on the heap: self is updated and returned
imul(objects, i, j) == [objects EXCEPT ![i] = imul_unit(@, objects[j])]

\* Unit.__float__
float_all_zero(u) ==
    IF DOMAIN u.units = {} THEN Return(<<UnitFloat(u)>>) ELSE Raise("ValueError")

float(u) ==
    IF IsDimensionless(u) THEN Return(<<UnitFloat(u)>>) ELSE Raise("ValueError")

UnitQuery(method, operands) ==
    [method |-> method, form |-> None, point |-> operands, args |-> <<>>, kwargs |-> <<>>]

InitUnit ==
    /\ BuilderIdle
    /\ pc = 0
    /\ info = NoInfo
    /\ raw_data = <<>>
    /\ tables = <<>>
    /\ warnings = <<>>
    /\ error = NoError
    /\ annotation = [document |-> FALSE, columns |-> <<>>, parameters |-> <<>>, values |-> <<>>]

UnitFrame ==
    UNCHANGED <<annotation, info, raw_data, tables, error, warnings,
                interpolator, table, interp>>

\* u = Unit(*args)
UnitNew ==
    /\ pc < MaxOps
    /\ Len(heap) < MaxUnits
    /\ \E args \in UnitArgs :
        /\ heap' = Append(heap, UnitInit(EmptyUnit, args))
        /\ query' = UnitQuery("Unit", <<>>)
    /\ result' = Return(<<Len(heap) + 1>>)
    /\ pc' = pc + 1
    /\ UnitFrame

\* heap[i] * heap[j]
UnitMultiply ==
    /\ pc < MaxOps
    /\ Len(heap) < MaxUnits
    /\ \E i \in DOMAIN heap, j \in DOMAIN heap :
        /\ Small(heap[i]) /\ Small(heap[j])
        /\ heap' = mul(heap, i, j)
        /\ query' = UnitQuery("__mul__", <<i, j>>)
    /\ result' = Return(<<Len(heap) + 1>>)
    /\ pc' = pc + 1
    /\ UnitFrame

\* heap[i] / heap[j]
UnitDivide ==
    /\ pc < MaxOps
    /\ Len(heap) < MaxUnits
    /\ \E i \in DOMAIN heap, j \in DOMAIN heap :
        /\ Small(heap[i]) /\ Small(heap[j])
        /\ heap' = truediv(heap, i, j)
        /\ query' = UnitQuery("__truediv__", <<i, j>>)
    /\ result' = Return(<<Len(heap) + 1>>)
    /\ pc' = pc + 1
    /\ UnitFrame

\* heap[i].inverse()
UnitInverse ==
    /\ pc < MaxOps
    /\ Len(heap) < MaxUnits
    /\ \E i \in DOMAIN heap :
        /\ heap' = Append(heap, inverse(heap[i]))
        /\ query' = UnitQuery("inverse", <<i>>)
    /\ result' = Return(<<Len(heap) + 1>>)
    /\ pc' = pc + 1
    /\ UnitFrame

\* heap[i] *= heap[j]
UnitMultiplyInPlace ==
    /\ pc < MaxOps
    /\ \E i \in DOMAIN heap, j \in DOMAIN heap :
        /\ Small(heap[i]) /\ Small(heap[j])
        /\ heap' = imul(heap, i, j)
        /\ query' = UnitQuery("__imul__", <<i, j>>)
        /\ result' = Return(<<i>>)
    /\ pc' = pc + 1
    /\ UnitFrame

\* float(heap[i])
UnitConvert ==
    /\ pc < MaxOps
    /\ \E i \in DOMAIN heap :
        /\ query' = UnitQuery("__float__", <<i>>)
        /\ result' = float(heap[i])
    /\ pc' = pc + 1
    /\ UNCHANGED heap
    /\ UnitFrame

NextUnit ==
    \/ UnitNew
    \/ UnitMultiply
    \/ UnitDivide
    \/ UnitInverse
    \/ UnitMultiplyInPlace
    \/ UnitConvert

SpecUnit == InitUnit /\ [][NextUnit]_vars


(***************************************************************************)
(* Claims on utility.Unit (SpecUnit).                                      *)
(***************************************************************************)
Converted == query.method = "__float__"

Operand(n) == heap[query.point[n]]

\* C14: float(unit) returns the numeric factor exactly when every base-unit
\* exponent is zero, entries left at zero by cancellation included, and
\* raises ValueError otherwise.
C14_FloatOfDimensionless ==
    Converted =>
        IF \A k \in DOMAIN Operand(1).units : Operand(1).units[k] = 0
        THEN result = Return(<<Operand(1).factor>>)
        ELSE result = Raise("ValueError")

\* a Unit whose exponent of fb was cancelled to zero is converted
C14_CancelledExponent ==
    /\ Converted
    /\ "fb" \in DOMAIN Operand(1).units
    /\ Operand(1).units["fb"] = 0
    /\ result = Return(<<Operand(1).factor>>)


One == Return(<<(<<1, 1>>)>>)

Newest == heap[Len(heap)]

Kept == \A i \in DOMAIN heap : heap'[i] = heap[i]

\* C16: a * b, a / b and a.inverse() return a new Unit and leave every Unit
\* constructed before unchanged, and so does float(a); a *= b changes the
\* factor and the exponents of a itself, returns a, and leaves b and every
\* other Unit unchanged.
C16_OperandsKept ==
    /\ [][(UnitNew \/ UnitMultiply \/ UnitDivide \/ UnitInverse)
            => (Len(heap') = Len(heap) + 1 /\ Kept)]_vars
    /\ [][UnitConvert => heap' = heap]_vars
    /\ [][UnitMultiplyInPlace =>
            /\ Len(heap') = Len(heap)
            /\ heap'[query'.point[1]]
                 = imul_unit(heap[query'.point[1]], heap[query'.point[2]])
            /\ \A i \in DOMAIN heap : i # query'.point[1] => heap'[i] = heap[i]]_vars

\* the product of two different Units is a third object
C16_ProductIsNew ==
    /\ query.method = "__mul__"
    /\ query.point = <<1, 2>>
    /\ Len(heap) = 3
    /\ Newest = imul_unit(heap[1], heap[2])
    /\ Newest # heap[1]
    /\ Newest # heap[2]
    /\ heap[1] # heap[2]

\* C16 as stated: no operation changes a Unit that is already constructed
C16_NeverChanged == [][Kept]_vars


(***************************************************************************)
(* base/info.py on its own: FileInfo objects constructed from members and  *)
(* validated, and ValueInfo.from_json on the json of one value.            *)
(***************************************************************************)
ColumnIndices == {<<0, 1, 2>>, <<0, 2, 1>>, <<1, 2, 3>>, <<0, 1, 1>>, <<-1, 1, 2>>}

ColumnNameLists ==
    {<<"m", "xsec", "unc">>, <<"m", "xsec", "xsec">>, <<"m", "m", "unc">>, <<"m", "xsec", "">>}

SourceLists == {<<"unc">>, <<"unc", "stat">>}

\* FileInfo(columns=[ColumnInfo(...)], parameters=[ParameterInfo(...)], values=[ValueInfo(...)])
FileInfo(indices, names, param, value, sources, unc_type) ==
    [columns    |-> [i \in 1..3 |-> [index |-> indices[i], name |-> names[i], unit |-> ""]],
     parameters |-> << [column |-> param, granularity |-> 0, granularity_text |-> ""] >>,
     values     |-> << [column |-> value,
                        unc_p  |-> << [cols |-> <<"unc">>, type |-> unc_type] >>,
                        unc_m  |-> << [cols |-> sources, type |-> "relative"] >>] >>]

FileInfos ==
    {FileInfo(indices, names, param, value, sources, unc_type) :
        indices \in ColumnIndices, names \in ColumnNameLists,
        param \in {"m", "mass"}, value \in {"xsec", "sigma"},
        sources \in SourceLists, unc_type \in {"absolute", "gaussian"}}

\* the json of one entry of "values"
ValueJsons ==
    LET g1 == [column |-> ListColumn(<<"u1", "u2">>), type |-> "relative"]
        g2 == [column |-> StrColumn("u3"), type |-> "absolute"]
    IN  [column    : {"xsec"},
         unc       : {Absent, Given(<<>>), Given(<<g1>>), Given(<<g1, g2>>)},
         unc_plus  : {Absent, Given(<<>>), Given(<<g1>>)},
         unc_minus : {Absent, Given(<<>>), Given(<<g2>>)}]

InitInfo ==
    /\ pc = "new"
    /\ annotation = [document |-> FALSE, columns |-> <<>>, parameters |-> <<>>, values |-> <<>>]
    /\ info = NoInfo
    /\ raw_data = <<>>
    /\ tables = <<>>
    /\ error = NoError
    /\ warnings = <<>>
    /\ BuilderIdle

InfoFrame ==
    UNCHANGED <<raw_data, tables, heap, interpolator, table, interp, query, result>>

\* FileInfo(...)
ConstructFileInfo ==
    /\ pc = "new"
    /\ info' \in FileInfos
    /\ pc' = "constructed"
    /\ UNCHANGED <<annotation, error, warnings>>
    /\ InfoFrame

\* info.validate()
ValidateFileInfo ==
    /\ pc = "constructed"
    /\ error' = validate_info(info)
    /\ pc' = "validated"
    /\ UNCHANGED <<annotation, info, warnings>>
    /\ InfoFrame

\* ValueInfo.from_json(json_obj)
ValueFromJson ==
    /\ pc = "new"
    /\ \E v \in ValueJsons :
        /\ annotation' = [annotation EXCEPT !.values = <<v>>]
        /\ error' = ValueLoadError(v)
        /\ info' = IF ValueLoadError(v) = NoError
                   THEN [info EXCEPT !.values = <<LoadValue(v)>>]
                   ELSE info
        /\ warnings' = IF ValueLoadError(v) = NoError THEN ValueWarnings(v) ELSE <<>>
    /\ pc' = "loaded"
    /\ InfoFrame

NextInfo ==
    \/ ConstructFileInfo
    \/ ValidateFileInfo
    \/ ValueFromJson

SpecInfo == InitInfo /\ [][NextInfo]_vars

(***************************************************************************)
(* Claims on base/info.py (SpecInfo).                                      *)
(***************************************************************************)
Declared == {info.columns[i].name : i \in DOMAIN info.columns}

Referred ==
    {info.parameters[i].column : i \in DOMAIN info.parameters}
    \cup {info.values[i].column : i \in DOMAIN info.values}
    \cup UNION {SourceColumns(info.values[i]) : i \in DOMAIN info.values}

Misplaced == \E i \in DOMAIN info.columns : info.columns[i].index # i - 1

NameTwice == Cardinality(Declared) < Len(info.columns)

MembersValid ==
    /\ \A i \in DOMAIN info.columns : info.columns[i].index >= 0 /\ info.columns[i].name # ""
    /\ \A i \in DOMAIN info.parameters : info.parameters[i].column # ""
    /\ \A i \in DOMAIN info.values :
        /\ info.values[i].column # ""
        /\ \A s \in Range(info.values[i].unc_p) \cup Range(info.values[i].unc_m) :
            s.type \in valid_uncertainty_types

\* C17: FileInfo.validate() fails if a column's index differs from its
\* position, a column name occurs twice, or a parameter, value or
\* uncertainty-source column name is not a declared column; it succeeds
\* otherwise when every member is valid on its own.
C17_ValidateFileInfo ==
    pc = "validated" =>
        /\ (Misplaced \/ NameTwice \/ ~(Referred \subseteq Declared)) => error # NoError
        /\ (MembersValid /\ ~Misplaced /\ ~NameTwice /\ Referred \subseteq Declared)
            => error = NoError

\* valid members, right indices and names, and an uncertainty source that
\* is not a column
C17_UnknownSource ==
    /\ pc = "validated"
    /\ MembersValid /\ ~Misplaced /\ ~NameTwice
    /\ "stat" \in Referred
    /\ Referred \ Declared = {"stat"}
    /\ error.type = "AssertionError"

Json == annotation.values[1]

\* C18: ValueInfo.from_json raises ValueError when 'unc' comes together with
\* 'unc+' or 'unc-'; with 'unc' alone its list becomes both unc_p and unc_m;
\* without 'unc', 'unc+' becomes unc_p and 'unc-' becomes unc_m.
C18_ValueFromJson ==
    pc = "loaded" =>
        IF Json.unc.given /\ (Json.unc_plus.given \/ Json.unc_minus.given)
        THEN error.type = "ValueError" /\ info = NoInfo
        ELSE /\ error = NoError
             /\ Json.unc.given =>
                    /\ info.values[1].unc_p = UncList(Json.unc)
                    /\ info.values[1].unc_m = UncList(Json.unc)
             /\ ~Json.unc.given =>
                    /\ info.values[1].unc_p = UncList(Json.unc_plus)
                    /\ info.values[1].unc_m = UncList(Json.unc_minus)

\* 'unc' alone, with two sources
C18_SymmetricUncertainty ==
    /\ pc = "loaded"
    /\ Json.unc.given /\ ~Json.unc_plus.given /\ ~Json.unc_minus.given
    /\ Len(info.values[1].unc_p) = 2
    /\ info.values[1].unc_m = info.values[1].unc_p
    /\ info.values[1].unc_p[1].cols = <<"u1", "u2">>
    /\ info.values[1].unc_p[2].cols = <<"u3">>


(***************************************************************************)
(* Claims on the unit conversion of BaseFile (Spec).                       *)
(***************************************************************************)
\* the absolute-type uncertainty columns of value v that are in the data
AbsoluteUsed(v) == (abs_columns(v) \cap DataColumns(info)) \ {v.column}

\* U / V for the unit U of column c and the unit V of the value column
UnitRatio(c, v) == UnitDiv(UnitOf(ColumnUnit(info, c)), UnitOf(ColumnUnit(info, v.column)))

Commensurable(c, v) == \A k \in DOMAIN UnitRatio(c, v).units : UnitRatio(c, v).units[k] = 0

\* the converted row, with every absolute column as raw entry times U / V
ScaledRow(name, i) ==
    LET v == ValueInfoOf(info, name)
    IN  [c \in DOMAIN ConvertedRow(name, i) |->
            IF c \in AbsoluteUsed(v)
            THEN Round(raw_data[i][c] * UnitRatio(c, v).factor[1], UnitRatio(c, v).factor[2])
            ELSE ConvertedRow(name, i)[c]]

Mismatch ==
    \E k \in DOMAIN info.values :
        /\ abs_columns(info.values[k]) \cap rel_columns(info.values[k]) = {}
        /\ \E c \in AbsoluteUsed(info.values[k]) : ~Commensurable(c, info.values[k])

\* C19: an absolute-type uncertainty column with unit U enters a table whose
\* value has unit V as raw entry times the scalar of U / V; when U / V is
\* not a scalar, _parse_data raises the ValueError of the unit conversion and
\* no table is produced.
C19_AbsoluteConversion ==
    /\ [](tables # <<>> =>
            \A k \in DOMAIN info.values : \A c \in AbsoluteUsed(info.values[k]) :
                Commensurable(c, info.values[k]))
    /\ [](Built => ForEveryRow(LAMBDA name, i, dir :
            StoredMagnitude(tables[name][i], dir)
              = Sqrt(SumSquares(GroupMaxima(ScaledRow(name, i),
                                            SourcesOf(ValueInfoOf(info, name), dir), dir)))))
    /\ [][(ParseData /\ Mismatch) =>
            /\ pc' = "failed"
            /\ error'.type = "ValueError"
            /\ error'.msg = "Unit conversion error"
            /\ tables' = <<>>]_vars

\* an entry of 3000 fb in the only non-zero source of a value in pb is stored as 3
C19_FemtoToPico ==
    /\ Built
    /\ ColumnUnit(info, "xsec") = "pb"
    /\ ColumnUnit(info, "u3") = "fb"
    /\ "u3" \in abs_columns(info.values[1])
    /\ \E i \in DOMAIN raw_data :
        /\ raw_data[i].u1 = 0 /\ raw_data[i].u2 = 0 /\ raw_data[i].u3 = 3000
        /\ tables.xsec[i].uncp = 3


(***************************************************************************)
(* utility.value_format.  The numbers of one call are integers counted in  *)
(* units of 10 ** -scale (scale 0: integers; scale 5: 36 is 0.00036); the  *)
(* text is a string built the way str.format builds it.                    *)
(***************************************************************************)
RECURSIVE Pow10(_)
Pow10(k) == IF k <= 0 THEN 1 ELSE 10 * Pow10(k - 1)

\* the number of decimal digits of n > 0
RECURSIVE NumDigits(_)
NumDigits(n) == IF n < 10 THEN 1 ELSE 1 + NumDigits(n \div 10)

\* the last d decimal digits of m, with leading zeros
RECURSIVE Pad(_, _)
Pad(m, d) == IF d = 0 THEN "" ELSE Pad(m \div 10, d - 1) \o ToString(m % 10)

\* the d digits of m without the trailing zeros
RECURSIVE StripPad(_, _)
StripPad(m, d) ==
    IF d = 0 THEN ""
    ELSE IF m % 10 = 0 THEN StripPad(m \div 10, d - 1)
    ELSE Pad(m, d)

\* "{:g}".format(n) for n >= 0: six significant digits, an exponent from 1e+06 on
FormatGAbs(n) ==
    IF n < 1000000 THEN ToString(n)
    ELSE LET e == NumDigits(n) - 1
             m0 == Round(n, Pow10(e - 5))
             m == IF m0 = 1000000 THEN 100000 ELSE m0
             ex == IF m0 = 1000000 THEN e + 1 ELSE e
         IN  ToString(m \div 100000)
             \o (IF m % 100000 = 0 THEN "" ELSE "." \o StripPad(m % 100000, 5))
             \o "e+" \o Pad(ex, 2)

\* "{:g}".format(m / 10 ** s) for 0 < m < 10 ** 6 not ending in 0, s > 0: all
\* digits are kept, an exponent is used below 1e-04
FormatGFraction(m, s) ==
    LET nd == NumDigits(m)
    IN  IF nd - 1 - s >= -4
        THEN ToString(m \div Pow10(s)) \o "." \o Pad(m % Pow10(s), s)
        ELSE ToString(m \div Pow10(nd - 1))
             \o (IF nd = 1 THEN "" ELSE "." \o Pad(m % Pow10(nd - 1), nd - 1))
             \o "e-" \o Pad(s - nd + 1, 2)

\* "{:g}".format(n / 10 ** s) for n >= 0
RECURSIVE FormatGScaled(_, _)
FormatGScaled(n, s) ==
    IF s = 0 \/ n = 0 THEN FormatGAbs(n)
    ELSE IF n % 10 = 0 THEN FormatGScaled(n \div 10, s - 1)
    ELSE FormatGFraction(n, s)

\* "{:g}".format(n / 10 ** scale)
FormatG(n, scale) ==
    IF n < 0 THEN "-" \o FormatGScaled(-n, scale) ELSE FormatGScaled(n, scale)

\* "{:.2%}".format(num / den); a quotient half-way between two texts is taken
\* upward, as the nearest binary fraction is for the numbers used here
FormatPercent(num, den) ==
    LET q == (2 * Abs(num) * 10000 + Abs(den)) \div (2 * Abs(den))
    IN  (IF (num < 0) # (den < 0) THEN "-" ELSE "")
        \o ToString(q \div 100) \o "." \o Pad(q % 100, 2) \o "%"

\* "{:.<d>f}".format(n / 10 ** order) for n >= 0 and order >= 0
FormatFixed(n, order, d) ==
    LET q == IF d >= order THEN n * Pow10(d - order) ELSE Round(n, Pow10(order - d))
    IN  ToString(q \div Pow10(d)) \o (IF d = 0 THEN "" ELSE "." \o Pad(q % Pow10(d), d))

\* the largest k >= from with a >= b * 10 ** k
RECURSIVE LogSteps(_, _, _)
LogSteps(a, b, k) ==
    IF a \div Pow10(k + 1) >= b THEN LogSteps(a, b, k + 1) ELSE k

\* floor(log10(num / den) - 0.005) instead of int(): differs below zero
IntLogFloor(num, den) ==
    IF num * 10000 >= den * 10116 THEN LogSteps(num * 10000, den * 10116, 0)
    ELSE -LogSteps(den * 10116, num * 10000, 0) - 1

\* int(log10(num / den) - 0.005): 10 ** 0.005 is 1.0116, int() truncates toward zero
IntLog(num, den) ==
    IF num * 10000 >= den * 10116 THEN LogSteps(num * 10000, den * 10116, 0)
    ELSE -LogSteps(den * 10116, num * 10000, 0)

\* int(log10(value / 10 ** scale)) for value > 0
v_order_of(value, scale) ==
    IF value >= Pow10(scale) THEN LogSteps(value, Pow10(scale), 0)
    ELSE -LogSteps(Pow10(scale), value, 0)

\* delta = min(abs(unc_p), abs(unc_m))
delta_max(unc_p, unc_m) == Max2(Abs(unc_p), Abs(unc_m))

delta(unc_p, unc_m) == Min2(Abs(unc_p), Abs(unc_m))

\* suffix = " {}".format(unit) if unit else ""
Suffix(unit) == IF unit = "" THEN "" ELSE " " \o unit

\* "({}){}".format(body, suffix) if suffix else body
Wrap(body, suffix) == IF suffix # "" THEN "(" \o body \o ")" \o suffix ELSE body

\* value_format(value, unc_p, unc_m, unit, relative), numbers in units of 10 ** -scale
value_format(value, unc_p, unc_m, unit, relative, scale) ==
    IF relative
    THEN IF value = 0 THEN Raise("ZeroDivisionError")
         ELSE Return(<<FormatG(value, scale) \o Suffix(unit)
                       \o " +" \o FormatPercent(unc_p, value)
                       \o " -" \o FormatPercent(Abs(unc_m), value)>>)
    ELSE IF delta(unc_p, unc_m) = 0
    THEN Return(<<Wrap(FormatG(value, scale) \o " +0 -0", Suffix(unit))>>)
    ELSE IF value <= 0 THEN Raise("ValueError")
    ELSE LET v_order == v_order_of(value, scale)
             scientific == Abs(v_order) > 3
             order == scale + (IF scientific THEN v_order ELSE 0)
             d == delta(unc_p, unc_m)
             disp_digits == IF scientific
                            THEN Max2(IntLog(value, d) + 2, 3)
                            ELSE Max2(IntLog(Pow10(scale), d)
                                        + (IF d > Pow10(scale) THEN 1 ELSE 2), 0)
             suffix == IF scientific THEN "*1e" \o ToString(v_order) \o Suffix(unit)
                       ELSE Suffix(unit)
             body == FormatFixed(value, order, disp_digits)
                     \o " +" \o (IF unc_p < 0 THEN "-" ELSE "")
                     \o FormatFixed(Abs(unc_p), order, disp_digits)
                     \o " -" \o FormatFixed(Abs(unc_m), order, disp_digits)
         IN  Return(<<Wrap(body, suffix)>>)

\* the largest value formatted together with a non-zero uncertainty
MaxValue == 12000

FormatValues == {-5, 0, 7, 100, 1200, 12000, 123456, 1000000, 1234567}

FormatUncertainties == {-20, -3, 0, 1, 5, 40}

FormatUnits == {"", "pb", "fb"}

\* numbers in units of 1e-05: 0.00004 ... 0.001, and uncertainties 0 ... 0.00015
FormatScales == {0, 5}

FormatSmallValues == {4, 10, 12, 36, 50, 99, 100}

FormatSmallUncertainties == {-11, 0, 1, 3, 11, 15}

InitFormat ==
    /\ pc = "new"
    /\ annotation = [document |-> FALSE, columns |-> <<>>, parameters |-> <<>>, values |-> <<>>]
    /\ info = NoInfo
    /\ raw_data = <<>>
    /\ tables = <<>>
    /\ error = NoError
    /\ warnings = <<>>
    /\ BuilderIdle

\* value_format(value, unc_p, unc_m, unit, relative)
ValueFormat ==
    /\ pc = "new"
    /\ \E scale \in FormatScales, unit \in FormatUnits, relative \in BOOLEAN :
       \E value \in (IF scale = 0 THEN FormatValues ELSE FormatSmallValues),
          unc_p \in (IF scale = 0 THEN FormatUncertainties ELSE FormatSmallUncertainties),
          unc_m \in (IF scale = 0 THEN FormatUncertainties ELSE FormatSmallUncertainties) :
        /\ value <= MaxValue \/ relative \/ delta(unc_p, unc_m) = 0
        /\ query' = [method |-> "value_format", form |-> None,
                     point |-> <<value, unc_p, unc_m>>, args |-> <<>>,
                     kwargs |-> <<[unit |-> unit, relative |-> relative, scale |-> scale]>>]
        /\ result' = value_format(value, unc_p, unc_m, unit, relative, scale)
    /\ pc' = "formatted"
    /\ UNCHANGED <<annotation, info, raw_data, tables, error, warnings,
                   heap, interpolator, table, interp>>

SpecFormat == InitFormat /\ [][ValueFormat]_vars

(***************************************************************************)
(* Claims on value_format (SpecFormat).                                    *)
(***************************************************************************)
Formatted == pc = "formatted"

\* C20: with relative = False and min(|unc_p|, |unc_m|) = 0 the text is the
\* value in %g followed by ' +0 -0', whatever the other uncertainty is; a
\* non-empty unit wraps it as '(<body>) <unit>', without a unit the body
\* stands alone.
C20_ZeroUncertainty ==
    (/\ Formatted
     /\ ~query.kwargs[1].relative
     /\ query.point[2] = 0 \/ query.point[3] = 0)
    => LET body == FormatG(query.point[1], query.kwargs[1].scale) \o " +0 -0"
           unit == query.kwargs[1].unit
       IN  result = Return(<<IF unit = "" THEN body ELSE "(" \o body \o ") " \o unit>>)

\* 1200 with unc_p = 5 and unc_m = 0 in pb
C20_OneSideZero ==
    /\ Formatted
    /\ query.point = <<1200, 5, 0>>
    /\ query.kwargs[1] = [unit |-> "pb", relative |-> FALSE, scale |-> 0]
    /\ result = Return(<<"(1200 +0 -0) pb">>)


\* a >= b * 10 ** k, for a, b > 0 and k in -9 .. 9
AtLeast(a, b, k) ==
    IF k >= 0 THEN a \div Pow10(k) >= b ELSE a > (b - 1) \div Pow10(-k)

\* floor(log10(a / b))
Log10Floor(a, b) == CHOOSE k \in -9..8 : AtLeast(a, b, k) /\ ~AtLeast(a, b, k + 1)

\* int(log10(a / b)): the fraction is cut off toward zero
Log10Trunc(a, b) == IF a >= b THEN Log10Floor(a, b) ELSE -Log10Floor(b, a)

NonZeroDelta ==
    /\ Formatted
    /\ ~query.kwargs[1].relative
    /\ query.point[1] > 0
    /\ delta(query.point[2], query.point[3]) > 0

\* the text for the last call when log10(a / b) is cut to an integer by LogOf;
\* 10 ** 0.005 is 1.0116
FormText(LogOf(_, _)) ==
    LET value == query.point[1]
        unc_p == query.point[2]
        unc_m == query.point[3]
        one == Pow10(query.kwargs[1].scale)
        d == Min2(Abs(unc_p), Abs(unc_m))
        order == LogOf(value, one)
        digits == IF Abs(order) > 3
                  THEN Max2(LogOf(value * 10000, d * 10116) + 2, 3)
                  ELSE Max2(LogOf(one * 10000, d * 10116) + (IF d > one THEN 1 ELSE 2), 0)
        shift == query.kwargs[1].scale + (IF Abs(order) > 3 THEN order ELSE 0)
        body == FormatFixed(value, shift, digits)
                \o " +" \o (IF unc_p < 0 THEN "-" ELSE "") \o FormatFixed(Abs(unc_p), shift, digits)
                \o " -" \o FormatFixed(Abs(unc_m), shift, digits)
        suffix == (IF Abs(order) > 3 THEN "*1e" \o ToString(order) ELSE "")
                  \o Suffix(query.kwargs[1].unit)
    IN  IF suffix = "" THEN body ELSE "(" \o body \o ")" \o suffix

\* C21: with relative = False, value > 0 and delta > 0, order is log10(value)
\* cut toward zero; with |order| > 3 the text is the scientific form with
\* suffix '*1e<order>' and max(int(-log10(delta / value) - 0.005) + 2, 3)
\* digits, otherwise value, +unc and -unc have
\* max(int(-log10(delta) - 0.005) + (1 if delta > 1 else 2), 0) digits, int()
\* cutting toward zero.
C21_DigitsByTruncation == NonZeroDelta => result = Return(<<FormText(Log10Trunc)>>)

\* 0.00036 +0.00015 -0.00011 pb: a value in [1e-4, 1e-3) in fixed-point form
C21_SmallValueFixedPoint ==
    /\ NonZeroDelta
    /\ query.kwargs[1] = [unit |-> "pb", relative |-> FALSE, scale |-> 5]
    /\ query.point = <<36, 15, 11>>
    /\ result = Return(<<"(0.00036 +0.00015 -0.00011) pb">>)

\* C21 as stated: the order and the digit counts are taken with floor()
C21_DigitsByFloor == NonZeroDelta => result = Return(<<FormText(Log10Floor)>>)

\* ---------------------------------------------------------------------------
\* config.py: the values of table_names and their parsing.  A value is None,
\* a string or a tuple of strings; paths are strings joined with "/".
\* ---------------------------------------------------------------------------

NoneValue == [kind |-> "none", text |-> "", items |-> <<>>]

StrValue(text) == [kind |-> "str", text |-> text, items |-> <<>>]

TupleValue(items) == [kind |-> "tuple", text |-> "", items |-> items]

\* len(obj) of a string or a tuple
ValueLen(obj) == IF obj.kind = "str" THEN Len(obj.text) ELSE Len(obj.items)

\* `not obj`: None, the empty string and the empty tuple are falsy
Falsy(obj) == obj.kind = "none" \/ ValueLen(obj) = 0

\* obj[0] of a one-element value: the string itself or the tuple's element
FirstItem(obj) == IF obj.kind = "str" THEN obj.text ELSE obj.items[1]

parse_table_value(obj) ==
    IF Falsy(obj) THEN Raise("ValueError")
    ELSE IF ValueLen(obj) < 2
         THEN Return(<<FirstItem(obj), IF ValueLen(obj) = 2 THEN obj.items[2] ELSE None>>)
    ELSE IF obj.kind = "str" THEN Return(<<obj.text, None>>)
    ELSE Raise("AssertionError")

table_dir == "susy_cross_section/data"

package_dir == "<package_dir>"

table_names ==
    [key \in {"7TeV.gg", "8TeV.sb10", "13TeV.st", "13TeV.x1x1.wino", "13TeV.slepslep.ll"} |->
        CASE key = "7TeV.gg" -> StrValue("nllfast/7TeV/gg_nllnlo_mstw2008.grid")
          [] key = "8TeV.sb10" -> StrValue("nllfast/8TeV/sb_nllnlo_mstw2008.grid")
          [] key = "13TeV.st" -> StrValue("nnllfast/13TeV/st_nnlonnll_pdf4lhc15_13TeV_wpresc.grid")
          [] key = "13TeV.x1x1.wino" -> StrValue("lhc_susy_xs_wg/13TeVx1x1wino_envelope.csv")
          [] OTHER -> StrValue("lhc_susy_xs_wg/13TeVslepslep_ll.csv")]

\* table_paths(key, absolute)
table_paths(key, absolute) ==
    LET value == IF key \in DOMAIN table_names THEN table_names[key] ELSE NoneValue
        parsed == parse_table_value(value)
        base_dir == IF absolute THEN package_dir \o "/" \o table_dir ELSE table_dir
        grid == parsed.value[1]
        info_file == parsed.value[2]
    IN  IF Falsy(value) THEN Return(<<None, None>>)
        ELSE IF parsed.kind = "raise" THEN parsed
        ELSE Return(<<base_dir \o "/" \o grid,
                      IF info_file = None \/ info_file = "" THEN None
                      ELSE base_dir \o "/" \o info_file>>)

GridNames == {"grid", "grid_only", "g", "a/b.grid", "table.csv", "data/xs.csv", "x.grid", "t"}

InfoNames == {None, "", "info", "i", "a/b.info", "table.info", "data/xs.info", "x.info", "t.info"}

TableValues ==
    {NoneValue, StrValue(""), TupleValue(<<>>)}
    \cup {StrValue(g) : g \in GridNames}
    \cup {TupleValue(<<g>>) : g \in GridNames}
    \cup {TupleValue(<<g, i>>) : g \in GridNames, i \in InfoNames}
    \cup {TupleValue(<<g, "info", "more">>) : g \in GridNames}

TableKeys == DOMAIN table_names \cup {"14TeV.gg"}

InitConfig == InitFormat

ParseTableValue ==
    /\ pc = "new"
    /\ \E obj \in TableValues :
        /\ query' = [method |-> "parse_table_value", form |-> None, point |-> <<>>,
                     args |-> <<obj>>, kwargs |-> <<>>]
        /\ result' = parse_table_value(obj)
    /\ pc' = "parsed"
    /\ UNCHANGED <<annotation, info, raw_data, tables, error, warnings,
                   heap, interpolator, table, interp>>

TablePaths ==
    /\ pc = "new"
    /\ \E key \in TableKeys, absolute \in BOOLEAN :
        /\ query' = [method |-> "table_paths", form |-> None, point |-> <<>>,
                     args |-> <<key>>, kwargs |-> <<[absolute |-> absolute]>>]
        /\ result' = table_paths(key, absolute)
    /\ pc' = "parsed"
    /\ UNCHANGED <<annotation, info, raw_data, tables, error, warnings,
                   heap, interpolator, table, interp>>

NextConfig == ParseTableValue \/ TablePaths

SpecConfig == InitConfig /\ [][NextConfig]_vars

Parsed(obj) == query.method = "parse_table_value" /\ query.args = <<obj>>

\* C22: parse_table_value returns (grid, None) for a non-empty string, the two
\* elements of a two-element tuple (grid, info) unchanged, (grid, None)
\* included, and raises ValueError for the empty string and for None.
C22_TupleReturnedUnchanged ==
    /\ \A g \in GridNames : Parsed(StrValue(g)) => result = Return(<<g, None>>)
    /\ \A g \in GridNames, i \in InfoNames :
        Parsed(TupleValue(<<g, i>>)) => result = Return(<<g, i>>)
    /\ Parsed(StrValue("")) \/ Parsed(NoneValue) => result = Raise("ValueError")

\* C22, the part the code satisfies: strings, the empty string and None.
C22_StringsAndEmpty ==
    /\ \A g \in GridNames : Parsed(StrValue(g)) => result = Return(<<g, None>>)
    /\ Parsed(StrValue("")) \/ Parsed(NoneValue) => result = Raise("ValueError")

C22_TupleAsserts ==
    /\ Parsed(TupleValue(<<"grid", "info">>))
    /\ result = Raise("AssertionError")

(***************************************************************************)
(* Sign and size of the interpolated uncertainties.                        *)
(***************************************************************************)
\* every coordinate of the point is within the range of its axis
InRange(point) == ~OutOfRange(point)

\* the rows at the corners of the grid cell that holds the point: on every
\* axis the nearest grid values on either side of the coordinate
Corners(point) ==
    {i \in DOMAIN table.rows :
        \A d \in DOMAIN point :
            LET ticks == {table.rows[j].key[d] : j \in DOMAIN table.rows}
                below == {t \in ticks : t <= point[d]}
                above == {t \in ticks : t >= point[d]}
            IN  table.rows[i].key[d] \in
                    {t \in below : \A u \in below : u <= t}
                    \cup {t \in above : \A u \in above : t <= u}}

\* what a query of unc_p_at, unc_m_at or tuple_at returned as unc+ and as unc-
UncPlus == IF query.method = "tuple_at" THEN result.value[2] ELSE result.value[1]

UncMinus == IF query.method = "tuple_at" THEN result.value[3] ELSE result.value[1]

AsksPlus == query.method \in {"unc_p_at", "tuple_at"}

AsksMinus == query.method \in {"unc_m_at", "tuple_at"}

UncertaintyInRange ==
    /\ Queried /\ result.kind = "return" /\ InRange(query.point)
    /\ \A i \in DOMAIN table.rows : table.rows[i].uncp >= 0

\* the magnitudes lie between the least and the greatest one stored at the corners
WithinCorners ==
    LET C == Corners(query.point)
    IN  /\ AsksPlus => /\ \E i \in C : table.rows[i].uncp <= UncPlus.v
                       /\ \E i \in C : UncPlus.v <= table.rows[i].uncp
        /\ AsksMinus => /\ \E i \in C : Abs(table.rows[i].uncm) <= -UncMinus.v
                        /\ \E i \in C : -UncMinus.v <= Abs(table.rows[i].uncm)

SignsRight ==
    /\ AsksPlus => ~UncPlus.nan /\ UncPlus.v >= 0
    /\ AsksMinus => ~UncMinus.nan /\ UncMinus.v <= 0

C23_LogAxisMidpoint ==
    /\ Queried /\ query.method = "unc_p_at" /\ query.form = "positional"
    /\ interpolator.class = "Scipy1dInterpolator" /\ interpolator.module = "interp"
    /\ interpolator.kind = "linear" /\ interpolator.axes = "loglog"
    /\ table = TableSteep /\ query.point = <<32>>
    /\ result = Return(<<Num(32 - 10)>>)

ReferredColumns(v) ==
    UNION {Range(src.column.names) :
            src \in Range(v.unc.list) \cup Range(v.unc_plus.list) \cup Range(v.unc_minus.list)}

UnknownReference(ann) ==
    LET names == {ann.columns[i].name : i \in DOMAIN ann.columns}
    IN  \/ \E i \in DOMAIN ann.parameters : ann.parameters[i].column \notin names
        \/ \E i \in DOMAIN ann.values :
              ann.values[i].column \notin names \/ ~(ReferredColumns(ann.values[i]) \subseteq names)

DuplicateName(ann) ==
    \E i, j \in DOMAIN ann.columns : i # j /\ ann.columns[i].name = ann.columns[j].name

MixedUncertainty(ann) ==
    \E i \in DOMAIN ann.values :
        ann.values[i].unc.given /\ (ann.values[i].unc_plus.given \/ ann.values[i].unc_minus.given)

InvalidType(ann) ==
    \E i \in DOMAIN ann.values :
        \E src \in Range(ann.values[i].unc.list) \cup Range(ann.values[i].unc_plus.list)
                   \cup Range(ann.values[i].unc_minus.list) :
            src.type \notin valid_uncertainty_types

\* the exceptions that report the defects of the annotation
DefectErrors(ann) ==
    (IF UnknownReference(ann) THEN {Error("AssertionError", "Unknown column name")} ELSE {})
    \cup (IF DuplicateName(ann) THEN {Error("AssertionError", "Duplicated column name")} ELSE {})
    \cup (IF MixedUncertainty(ann) THEN {Error("ValueError", "Uncertainty duplicates")} ELSE {})
    \cup (IF InvalidType(ann) THEN {Error("AssertionError", "invalid unc type")} ELSE {})

\* C24: the annotation is loaded and validated before the raw data is read
\* and before any table is built; an annotation with an unknown column
\* reference, a duplicate column name, a mixed symmetric/asymmetric
\* uncertainty or an invalid uncertainty type makes the construction fail
\* with that error, with no raw data read, no table built and no info
\* object that lacks the offending entry.
C24_ValidatedBeforeData ==
    /\ pc \in {"info_loaded", "csv_read", "info_validated", "parsed", "ready"} =>
          info = LoadedInfo(annotation) /\ validate_info(info) = NoError
    /\ raw_data # <<>> \/ tables # <<>> => validate_info(info) = NoError /\ info # NoInfo
    /\ DefectErrors(annotation) # {} /\ pc # "start" =>
          /\ pc = "failed" /\ error \in DefectErrors(annotation)
          /\ raw_data = <<>> /\ tables = <<>> /\ info = NoInfo

\* C24 (a case): a duplicated column name fails the construction at once
C24_DuplicateRejected ==
    /\ DuplicateName(annotation) /\ pc = "failed"
    /\ error = Error("AssertionError", "Duplicated column name")
    /\ raw_data = <<>> /\ tables = <<>> /\ info = NoInfo

C24_InvalidTypeRejected ==
    /\ pc = "failed" /\ InvalidType(annotation)
    /\ error = Error("AssertionError", "invalid unc type")

(***************************************************************************)
(* Claims on the relative uncertainty columns of BaseFile (Spec).          *)
(***************************************************************************)
\* the relative-type uncertainty columns of value v that are in the data
RelativeUsed(v) == (rel_columns(v) \cap DataColumns(info)) \ {v.column}

\* the scalar of the unit the column itself declares: 1 for "", 1/100 for "%"
OwnScalar(c) == UnitOf(ColumnUnit(info, c)).factor

OwnDimensionless(c) ==
    \A k \in DOMAIN UnitOf(ColumnUnit(info, c)).units : UnitOf(ColumnUnit(info, c)).units[k] = 0

\* the converted row, with every relative column as raw entry times central
\* value times the scalar of its own unit
RelativeScaledRow(name, i) ==
    LET v == ValueInfoOf(info, name)
    IN  [c \in DOMAIN ConvertedRow(name, i) |->
            IF c \in RelativeUsed(v)
            THEN Round(raw_data[i][c] * raw_data[i][v.column] * OwnScalar(c)[1], OwnScalar(c)[2])
            ELSE ConvertedRow(name, i)[c]]

RelativeMismatch ==
    \E k \in DOMAIN info.values :
        /\ abs_columns(info.values[k]) \cap rel_columns(info.values[k]) = {}
        /\ \E c \in RelativeUsed(info.values[k]) : ~OwnDimensionless(c)

\* C25: a relative-type uncertainty column enters the table as raw entry
\* times the central value of the row times the scalar s of the unit the
\* column declares (1 for "", 0.01 for "%"); a relative column whose unit is
\* not dimensionless makes the building of the tables fail with the
\* ValueError of the unit conversion.
C25_RelativeConversion ==
    /\ [](tables # <<>> =>
            \A k \in DOMAIN info.values : \A c \in RelativeUsed(info.values[k]) :
                OwnDimensionless(c) /\ OwnScalar(c) \in {<<1, 1>>, <<1, 100>>})
    /\ [](Built => ForEveryRow(LAMBDA name, i, dir :
            StoredMagnitude(tables[name][i], dir)
              = Sqrt(SumSquares(GroupMaxima(RelativeScaledRow(name, i),
                                            SourcesOf(ValueInfoOf(info, name), dir), dir)))))
    /\ [][(ParseData /\ RelativeMismatch) =>
            /\ pc' = "failed"
            /\ error'.type = "ValueError"
            /\ error'.msg = "Unit conversion error"
            /\ tables' = <<>>]_vars

\* an entry of 3 in a relative column in % next to the value 100 is stored as 3
C25_PercentOfValue ==
    /\ Built
    /\ ColumnUnit(info, "u3") = "%"
    /\ "u3" \in rel_columns(info.values[1])
    /\ \E i \in DOMAIN raw_data :
        /\ raw_data[i].xsec = 100
        /\ raw_data[i].u1 = 0 /\ raw_data[i].u2 = 0 /\ raw_data[i].u3 = 3
        /\ tables.xsec[i].uncp = 3

\* a relative column declared in fb stops the building
C25_DimensionalRelative ==
    /\ pc = "failed" /\ error.type = "ValueError" /\ error.msg = "Unit conversion error"
    /\ ColumnUnit(info, "u1") = "fb" /\ "u1" \in rel_columns(info.values[1])
    /\ tables = <<>>

(***************************************************************************)
(* The shape of the tables BaseFile builds (Spec).                         *)
(***************************************************************************)
\* the columns a value does not use: neither a parameter, nor the value, nor a source
Unrelated(v) ==
    DataColumns(info) \ ({v.column} \cup abs_columns(v) \cup rel_columns(v))

\* the raw data with the unrelated columns of value v overwritten
Blanked(v) ==
    [i \in DOMAIN raw_data |->
        [c \in DOMAIN raw_data[i] |-> IF c \in Unrelated(v) THEN 77 ELSE raw_data[i][c]]]

\* no column is declared as a value twice
DistinctValues ==
    \A j, k \in DOMAIN info.values : info.values[j].column = info.values[k].column => j = k

\* the tables are keyed by the value columns, one row per raw row, each with
\* the index made of the parameters in declaration order and the columns
\* value, unc+ and unc-, and they do not depend on the unrelated columns
TablesShaped ==
    /\ DOMAIN tables = {info.values[k].column : k \in DOMAIN info.values}
    /\ \A name \in DOMAIN tables :
        /\ DOMAIN tables[name] = DOMAIN raw_data
        /\ \A i \in DOMAIN raw_data :
            /\ DOMAIN tables[name][i] = {"key", "value", "uncp", "uncm"}
            /\ DOMAIN tables[name][i].key = DOMAIN info.parameters
            /\ \A d \in DOMAIN info.parameters :
                LET g == info.parameters[d].granularity
                    x == raw_data[i][info.parameters[d].column]
                IN  tables[name][i].key[d] = IF g > 0 THEN Round(x, g) * g ELSE x
            /\ tables[name][i].value = raw_data[i][name]
        /\ tables[name] = ParseTable(info, Blanked(ValueInfoOf(info, name)), ValueInfoOf(info, name))

\* C26 (as stated): one table per declared value, keyed by the column name of
\* the value, indexed by the quantized parameters in declaration order, with
\* the columns value, unc+ and unc-; unrelated columns do not influence the
\* tables and the raw data is not modified.
C26_OneTablePerValue ==
    /\ [](tables # <<>> => TablesShaped /\ Cardinality(DOMAIN tables) = Len(info.values))
    /\ [][pc = "csv_read" \/ pc = "info_validated" \/ pc = "parsed" => raw_data' = raw_data]_vars

\* C26 (as amended): the same, with one table per distinct value column:
\* values declared for the same column share one table, built from the last
\* of the declarations.
C26_OneTablePerColumn ==
    /\ [](tables # <<>> =>
            /\ TablesShaped
            /\ DistinctValues => Cardinality(DOMAIN tables) = Len(info.values))
    /\ [][pc = "csv_read" \/ pc = "info_validated" \/ pc = "parsed" => raw_data' = raw_data]_vars

\* C26 (a case): two parameters declared in the order u3, m index the table
\* of a file whose columns come in the order m, ..., u3
C26_DeclarationOrder ==
    /\ Built
    /\ Len(info.parameters) = 2
    /\ \E i \in DOMAIN raw_data :
        /\ raw_data[i].m = 18 /\ raw_data[i].u3 = 3
        /\ tables.xsec[i].key = <<3, 20>>

\* C26 (a case): two values give two tables
C26_TwoTables ==
    /\ Built /\ DOMAIN tables = {"xsec", "u2"}

\* C26 (a case): the value xsec declared twice gives one table
C26_DeclaredTwice ==
    /\ Built /\ Len(info.values) = 2 /\ DOMAIN tables = {"xsec"}

(***************************************************************************)
(* Values that lack the uncertainty sources of a direction (Spec).         *)
(***************************************************************************)
\* the json value declares no source for the direction: no "unc", and the
\* key of the direction ("unc+" for 1, "unc-" for -1) missing or empty
Lacks(v, dir) ==
    LET key == IF dir = 1 THEN v.unc_plus ELSE v.unc_minus
    IN  /\ ~v.unc.given
        /\ ~key.given \/ key.list = <<>>

\* the values of the annotation and the directions they lack
Lacking ==
    {<<k, dir>> \in (DOMAIN annotation.values) \X {1, -1} : Lacks(annotation.values[k], dir)}

MissingWarning(dir) ==
    IF dir = 1 THEN "Uncertainty (unc+) missing" ELSE "Uncertainty (unc-) missing"

Logged(text) == \E n \in DOMAIN warnings : warnings[n] = text

\* C27: a value without uncertainty sources for a direction does not abort
\* the loading or the building; a warning is logged and the table has the
\* uncertainty 0 of that direction in every row.
C27_MissingDirectionIsZero ==
    \A pair \in Lacking :
        LET name == annotation.values[pair[1]].column
            dir == pair[2]
        IN  /\ pc # "start" /\ DefectErrors(annotation) = {} =>
                /\ Logged(MissingWarning(dir))
                /\ Logged("Value lacks uncertainties")
                /\ pc = "failed" => error.msg = "Found duplicated entries" /\ tables # <<>>
            /\ tables # <<>> =>
                \A i \in DOMAIN tables[name] : StoredMagnitude(tables[name][i], dir) = 0

\* C27 (a case): "unc-" is missing; the file is built with unc- = 0 next to
\* a non-zero unc+
C27_OnlyPositiveDeclared ==
    /\ Built
    /\ Lacking = {<<1, -1>>}
    /\ warnings = <<"Uncertainty (unc-) missing", "Value lacks uncertainties">>
    /\ \E i \in DOMAIN tables.xsec : tables.xsec[i].uncp > 0 /\ tables.xsec[i].uncm = 0

\* C27 (a case): an empty "unc+" counts as missing
C27_EmptyList ==
    /\ Built
    /\ annotation.values[1].unc_plus = Given(<<>>)
    /\ Logged("Uncertainty (unc+) missing")

(***************************************************************************)
(* Several interpolations of one table.  heap holds the result objects in  *)
(* the order they were made, each with a mark once it answered a query;     *)
(* interp is the object the last query was made on.                        *)
(***************************************************************************)
MaxResults == 2

\* the table as interpolate leaves it: the three series are new frames
\* (table["value"] + table["unc+"], table["value"] - abs(table["unc-"]))
table_after_interpolate(self, tab) == tab

\* the interpolator object as interpolate leaves it
interpolator_after_interpolate(self, tab) == self

RepeatInterpolators ==
    {i \in Interpolators : i.module = "interp" /\ i.kind \in {"linear", "spline"}}

RepeatTables ==
    {Table1d(1, "narrow"), Table1d(-1, "narrow"), Table1d(1, "wide"),
     Table2d(<<10, 100>>, 11, 2, 1), TableSteep}

InitRepeat ==
    /\ InitInterp
    /\ interpolator \in RepeatInterpolators
    /\ table \in RepeatTables

\* heap.append(interpolator.interpolate(table))
InterpolateAgain ==
    /\ pc \in {"constructed", "interpolated", "queried"}
    /\ Len(heap) < MaxResults
    /\ LET made == interpolate(interpolator, table)
       IN  IF made.raised = ""
           THEN /\ heap' = Append(heap, [object |-> made.interp, asked |-> FALSE])
                /\ pc' = "interpolated"
                /\ error' = error
           ELSE /\ heap' = heap
                /\ pc' = "interpolate_failed"
                /\ error' = Error(made.raised, "interpolate")
    /\ table' = table_after_interpolate(interpolator, table)
    /\ interpolator' = interpolator_after_interpolate(interpolator, table)
    /\ UNCHANGED <<annotation, info, raw_data, tables, warnings, interp, query, result>>

\* result = heap[k].<method>(*point)
QueryResult ==
    /\ pc \in {"interpolated", "queried"}
    /\ \E k \in DOMAIN heap, method \in {"fm", "tuple_at"} :
       \E point \in Points(heap[k].object, table) :
          /\ ~heap[k].asked
          /\ Determined(heap[k].object.f0, point)
          /\ query' = MakeQuery(method, "positional", heap[k].object.names, point, <<>>)
          /\ result' = Invoke(heap[k].object, method, query'.args, query'.kwargs)
          /\ interp' = heap[k].object
          /\ heap' = [heap EXCEPT ![k].asked = TRUE]
    /\ pc' = "queried"
    /\ UNCHANGED <<annotation, info, raw_data, tables, error, warnings, interpolator, table>>

NextRepeat == InterpolateAgain \/ QueryResult

SpecRepeat == InitRepeat /\ [][NextRepeat]_vars

\* the fit of one series of the table, made afresh
FreshFit(series) == interpolate_series(interpolator, table, series).fit

NotPositive ==
    {k \in DOMAIN annotation.parameters :
        /\ annotation.parameters[k].granularity.given
        /\ \/ annotation.parameters[k].granularity.text # ""
           \/ annotation.parameters[k].granularity.value <= 0}

\* C29: a parameter whose declared granularity is not a positive number
\* (zero, negative, not a number) is rejected when the annotation is loaded;
\* only a parameter without granularity is left unquantized.
C29_NonPositiveRejected ==
    /\ NotPositive # {} /\ pc # "start" =>
          pc = "failed" /\ error.type = "AssertionError" /\ info = NoInfo
    /\ pc \in {"info_loaded", "csv_read", "info_validated", "parsed", "ready"} =>
          \A k \in DOMAIN info.parameters :
              info.parameters[k].granularity = 0 => ~annotation.parameters[k].granularity.given

\* C29, the part the code satisfies: a negative granularity and a string are rejected
C29_NegativeOrTextRejected ==
    (/\ pc # "start"
     /\ \E k \in NotPositive : \/ annotation.parameters[k].granularity.text # ""
                               \/ annotation.parameters[k].granularity.value < 0)
    => pc = "failed" /\ error.type = "AssertionError" /\ info = NoInfo

\* a declared granularity of 0 is loaded as no granularity and the file is
\* built with the raw parameter as index
C29_ZeroTakenAsAbsent ==
    /\ Built
    /\ annotation.parameters[1].granularity = [given |-> TRUE, value |-> 0, text |-> ""]
    /\ info.parameters[1].granularity = 0
    /\ \E i \in DOMAIN raw_data : raw_data[i].m = 18 /\ tables.xsec[i].key = <<18>>

(***************************************************************************)
(* The sign of the stored unc- (SpecInterp).                               *)
(***************************************************************************)
\* the table with unc- negated in the rows of S
Negated(tab, S) ==
    [tab EXCEPT !.rows = [i \in DOMAIN tab.rows |->
                            IF i \in S THEN [tab.rows[i] EXCEPT !.uncm = -@] ELSE tab.rows[i]]]

\* the sets of rows that are negated: every set of rows of a table of up to
\* four rows; of a larger table every single row, the odd rows and all rows
Flips(tab) ==
    IF Len(tab.rows) <= 4 THEN SUBSET (DOMAIN tab.rows)
    ELSE {{i} : i \in DOMAIN tab.rows}
         \cup {{i \in DOMAIN tab.rows : i % 2 = 1}, DOMAIN tab.rows}

\* C30: the result of interpolate depends on unc- only through its absolute
\* value: with any set of unc- entries negated, interpolate gives the same
\* f0, fp and fm (or fails alike), hence the same answers of unc_p_at and
\* unc_m_at.
C30_OnlyMagnitudeOfUncM ==
    /\ pc = "interpolated" =>
          \A S \in Flips(table) :
              interpolate(interpolator, Negated(table, S)) = [raised |-> "", interp |-> interp]
    /\ pc = "interpolate_failed" =>
          \A S \in Flips(table) : interpolate(interpolator, Negated(table, S)).raised = error.type
    /\ Queried => result = Invoke(interp, query.method, query.args, query.kwargs)

\* C30 (a case): unc_m_at of a table that stores unc- negative is the answer
\* of the table that stores it positive
C30_SameAsPositiveTable ==
    /\ Queried /\ query.method = "unc_m_at" /\ query.form = "positional"
    /\ table = Table1d(-1, "narrow")
    /\ result.kind = "return" /\ Value(result).v < 0
    /\ interp = interpolate(interpolator, Table1d(1, "narrow")).interp
    /\ Table1d(1, "narrow") = Negated(table, DOMAIN table.rows)

====
